---- MODULE Spec2Model ----
(***************************************************************************)
(* ACE-RISCV security monitor: the second-level page-table engine          *)
(* (core/mmu/page_table.rs, core/mmu/paging_system.rs) and the             *)
(* confidential hart (core/control_data/confidential_hart.rs).             *)
(*                                                                         *)
(* Three specifications share the module:                                  *)
(*   Spec      the page-table engine of one confidential VM: deep copy of  *)
(*             a hypervisor table, map_shared_page, drop;                  *)
(*   SpecHart  the public operations of one ConfidentialHart, called in    *)
(*             any order;                                                  *)
(*   SpecFlow  one confidential hart driven by the trap-handle / resume    *)
(*             steps of the two control flows.                             *)
(*                                                                         *)
(* Types that the sources use but that live in other files of the          *)
(* repository (MemoryTracker, Page, PageTableMemory, the page_table_entry  *)
(* codecs, HartState, the transformations) are modelled from the design    *)
(* document and are marked so where they are defined.                      *)
(***************************************************************************)
EXTENDS Integers, Sequences, FiniteSets, TLC

VARIABLES
    nonconf,     \* non-confidential (hypervisor) memory: frame -> word index -> word
    pool,        \* MemoryTracker: the set of free confidential 4 KiB frames
    reserved,    \* confidential frames held by owners other than this CVM
    root,        \* the CVM's RootPageTable, or None
    last,        \* outcome of the last page-table operation
    hart,        \* the ConfidentialHart
    ret,         \* outcome of the last hart operation
    flow,        \* where the hart is and what the flows have stored and taken
    guest,       \* the usize the guest's memory holds at the hart's mepc
    cvms,        \* per CVM: its tree and the position of the operation running on it
    writes       \* the writes the hypervisor has made to its tables

vars == <<nonconf, pool, reserved, root, last, hart, ret, flow, guest, cvms, writes>>
ptVars == <<nonconf, pool, reserved, root, last, cvms, writes>>
hartVars == <<hart, ret, flow, guest>>

None == [kind |-> "None"]

(***************************************************************************)
(* Bounds of the model.                                                    *)
(***************************************************************************)
\* Index bits of an inner page table. The source has 9 (512 entries, 4 KiB
\* page of 8-byte words, root of 2^(9+2) entries); every size below derives
\* from it as in the source.
VpnBits == 1
\* Number of confidential 4 KiB frames managed by the MemoryTracker.
NumConfFrames == 20
\* Number of free frames of the tracker in the runs that start short of memory.
SmallPool == 6
\* Number of free frames in the runs where one sub-tree fits and a second does not.
MidPool == 12
\* Largest number of bytes the hart operations advance mepc beyond the
\* 8 KiB boundary it started at.
MaxAdvance == 14
\* Number of requests the flows store before the run is cut.
MaxTraps == 3
\* The writes the hypervisor makes to its tables while a copy runs.
MaxWrites == 2

(***************************************************************************)
(* Small helpers.                                                          *)
(***************************************************************************)
Pow2(n) == 2 ^ n
Bit(w, k) == (w \div Pow2(k)) % 2
SetMin(S) == CHOOSE x \in S : \A y \in S : x <= y
\* F applied to the value of an expression that is evaluated once.
Bind(value, F(_)) == CHOOSE result \in {F(v) : v \in {value}} : TRUE

(***************************************************************************)
(* paging_system.rs                                                        *)
(***************************************************************************)
Level5 == 5
Level1 == 1
PageTableLevels == Level1..Level5

\* PagingSystem::levels
levels == Level5

\* PagingSystem::entry_size, and its binary logarithm
entry_size == 8
EntrySizeBits == 3

\* PageSize::Size4KiB.in_bytes(): one inner table of 8-byte entries.
PageShift == VpnBits + EntrySizeBits
PageBytes == Pow2(PageShift)
WordsPerPage == PageBytes \div entry_size

\* PagingSystem::entries: the root is extended by 2 bits.
entries(level) == IF level = Level5 THEN Pow2(VpnBits + 2) ELSE Pow2(VpnBits)

\* PagingSystem::size_in_bytes
size_in_bytes(level) == entries(level) * entry_size

\* PagingSystem::configuration_pages
configuration_pages(level) == size_in_bytes(level) \div PageBytes

\* PagingSystem::vpn: shifts 12, 21, 30, 39, 48 and masks 0x1ff (0x3ff at
\* the root) of the source.
vpn(virtual_address, level) ==
    (virtual_address \div Pow2(PageShift + VpnBits * (level - 1)))
        % (IF level = Level5 THEN Pow2(VpnBits + 1) ELSE Pow2(VpnBits))

\* PagingSystem::page_size followed by PageSize::in_bytes
\* Mutant of page_size: every level is given the page size of the level above.
page_size_of_level_above(level) == Pow2(PageShift + VpnBits * level)

page_size(level) == Pow2(PageShift + VpnBits * (level - 1))

\* Mutant of lower: Level1 has itself as its lower level.
lower_never_ends(level) ==
    IF level = Level1 THEN [some |-> TRUE, level |-> Level1]
    ELSE [some |-> TRUE, level |-> level - 1]

\* PageTableLevel::lower
lower(level) ==
    IF level = Level1 THEN [some |-> FALSE, level |-> 0]
    ELSE [some |-> TRUE, level |-> level - 1]

(***************************************************************************)
(* Physical memory. Frames 0 .. NumNonConfFrames-1 are non-confidential,   *)
(* the NumConfFrames frames after them are confidential. An address is a   *)
(* byte address; a frame holds WordsPerPage 8-byte words.                  *)
(***************************************************************************)
\* Hypervisor memory of the model: the root table (4 frames), one table for
\* each of the levels 4..1, and one aligned 2 MiB run of data frames.
HvRootAddress == 0 * PageBytes
HvTableFrame(level) == configuration_pages(Level5) + (Level5 - 1 - level)
HvDataFrame == configuration_pages(Level5) + (Level5 - 1)
NumNonConfFrames == HvDataFrame + WordsPerPage

NonConfFrames == 0..(NumNonConfFrames - 1)
ConfFrames == NumNonConfFrames..(NumNonConfFrames + NumConfFrames - 1)

FrameOf(address) == address \div PageBytes
AddressOf(frame) == frame * PageBytes
\* The 4 KiB frames of the region [address, address + bytes).
FramesOf(address, bytes) ==
    {FrameOf(address) + k : k \in 0..((bytes \div PageBytes) - 1)}

IsConfidential(address) == FrameOf(address) \in ConfFrames
IsNonConfidential(address) == FrameOf(address) \in NonConfFrames

\* The word at a byte address of a memory.
ReadWord(mem, address) ==
    mem[FrameOf(address)][(address % PageBytes) \div entry_size]
\* The words of [address, address + bytes), in address order from index 0.
ReadWords(mem, address, bytes) ==
    [i \in 0..((bytes \div entry_size) - 1) |-> ReadWord(mem, address + i * entry_size)]

\* NonConfidentialMemoryAddress::new: Ok for an address of the
\* non-confidential region, else the address error of the taxonomy.
NonConfidentialMemoryAddress_new(address) ==
    IF IsNonConfidential(address)
    THEN [ok |-> TRUE, address |-> address]
    ELSE [ok |-> FALSE, error |-> "InvalidAddress"]

(***************************************************************************)
(* page_table_entry.rs: the raw 64-bit word. valid(0), R(1), W(2), X(3),   *)
(* U(4), G(5), A(6), D(7), RSW(8-9), PPN(10-53).                           *)
(***************************************************************************)
PpnShift == 10

\* PageTableBits::is_valid
is_valid(entry_raw) == Bit(entry_raw, 0) = 1
\* PageTableBits::is_leaf: one of R, W, X is set.
is_leaf(entry_raw) == Bit(entry_raw, 1) + Bit(entry_raw, 2) + Bit(entry_raw, 3) > 0

\* PageTableAddress::decode: the PPN field as a byte address.
PageTableAddress_decode(entry_raw) == (entry_raw \div Pow2(PpnShift)) * PageBytes
\* PageTableAddress encoding: the byte address as the PPN field.
PageTableAddress_encode(address) == (address \div PageBytes) * Pow2(PpnShift)

\* PageTableConfiguration::decode: U, G, A, D.
PageTableConfiguration_decode(entry_raw) ==
    [user |-> Bit(entry_raw, 4), global |-> Bit(entry_raw, 5),
     accessed |-> Bit(entry_raw, 6), dirty |-> Bit(entry_raw, 7)]
PageTableConfiguration_encode(c) ==
    c.user * 16 + c.global * 32 + c.accessed * 64 + c.dirty * 128
\* PageTableConfiguration::empty
PageTableConfiguration_empty == [user |-> 0, global |-> 0, accessed |-> 0, dirty |-> 0]
\* PageTableConfiguration::shared_page_configuration: user.
shared_page_configuration == [user |-> 1, global |-> 0, accessed |-> 0, dirty |-> 0]

\* PageTablePermission::decode: R, W, X.
PageTablePermission_decode(entry_raw) ==
    [read |-> Bit(entry_raw, 1), write |-> Bit(entry_raw, 2), execute |-> Bit(entry_raw, 3)]
PageTablePermission_encode(p) == p.read * 2 + p.write * 4 + p.execute * 8
\* PageTablePermission::shared_page_permission: read and write, no execute.
shared_page_permission == [read |-> 1, write |-> 1, execute |-> 0]

\* The four PageTableEntry variants.
NotValid == [kind |-> "NotValid"]
Leaf(page, configuration, permission) ==
    [kind |-> "Leaf", page |-> page, configuration |-> configuration, permission |-> permission]
Pointer(page_table, configuration) ==
    [kind |-> "Pointer", page_table |-> page_table, configuration |-> configuration]
Shared(address, configuration, permission) ==
    [kind |-> "Shared", address |-> address, configuration |-> configuration,
     permission |-> permission]

\* PageTableEntry::encode: the raw word of a logical entry. Leaf, Pointer
\* and Shared are encoded alike, around the address each one targets.
PageTableEntry_encode(entry) ==
    CASE entry.kind = "NotValid" -> 0
      [] entry.kind = "Leaf" ->
            PageTableAddress_encode(entry.page.address)
            + PageTableConfiguration_encode(entry.configuration)
            + PageTablePermission_encode(entry.permission) + 1
      [] entry.kind = "Pointer" ->
            PageTableAddress_encode(entry.page_table.page_table_memory.address)
            + PageTableConfiguration_encode(entry.configuration) + 1
      [] entry.kind = "Shared" ->
            PageTableAddress_encode(entry.address)
            + PageTableConfiguration_encode(entry.configuration)
            + PageTablePermission_encode(entry.permission) + 1

(***************************************************************************)
(* memory_tracker.rs: the pool of free confidential frames.                *)
(***************************************************************************)
\* The start frames of the free runs of n pages of page_bytes each, aligned
\* to the page size.
FreeRuns(free, n, page_bytes) ==
    LET frames == page_bytes \div PageBytes
    IN  {a \in free : /\ a % frames = 0
                      /\ \A k \in 0..(n * frames - 1) : (a + k) \in free}

\* MemoryTracker::acquire_continous_pages: n contiguous pages of one size,
\* lowest address first, or OutOfMemory.
acquire_continous_pages(free, n, page_bytes) ==
    LET runs == FreeRuns(free, n, page_bytes)
    IN  IF runs = {} THEN [ok |-> FALSE, error |-> "OutOfMemory"]
        ELSE LET a == SetMin(runs)
             IN  [ok |-> TRUE, address |-> AddressOf(a),
                  pool |-> free \ FramesOf(AddressOf(a), n * page_bytes)]

\* Page: an owned region of confidential memory with its content.
Page(address, bytes, data) == [address |-> address, size |-> bytes, data |-> data]

\* Page::deallocate followed by MemoryTracker::release_page: the frames of
\* the page are free again.
release_page(free, page) == free \cup FramesOf(page.address, page.size)

\* Page::copy_from_non_confidential_memory: the page filled with the bytes
\* of [address, address + size), or an error when that range leaves the
\* non-confidential region.
Page_copy_from_non_confidential_memory(mem, page, address) ==
    IF FramesOf(address, page.size) \subseteq NonConfFrames
    THEN [ok |-> TRUE, page |-> Page(page.address, page.size, ReadWords(mem, address, page.size))]
    ELSE [ok |-> FALSE, error |-> "InvalidAddress"]

(***************************************************************************)
(* page_table_memory.rs: the backing region of one table.                  *)
(***************************************************************************)
PageTableMemory(address, pages, raw) == [address |-> address, pages |-> pages, raw |-> raw]

\* PageTableMemory::indices
indices(memory) == DOMAIN memory.raw
\* PageTableMemory::number_of_entries
number_of_entries(memory) == Cardinality(DOMAIN memory.raw)
\* The frames a PageTableMemory owns.
MemoryFrames(memory) == FramesOf(memory.address, memory.pages * PageBytes)

\* PageTableMemory::copy_from_non_confidential_memory: acquire the backing
\* region and snapshot the raw words of the hypervisor's table into it.
PageTableMemory_copy_from_non_confidential_memory(mem, free, address, level) ==
    IF ~(FramesOf(address, size_in_bytes(level)) \subseteq NonConfFrames)
    THEN [ok |-> FALSE, error |-> "InvalidAddress"]
    ELSE LET got == acquire_continous_pages(free, configuration_pages(level), PageBytes)
         IN  IF ~got.ok THEN [ok |-> FALSE, error |-> got.error]
             ELSE [ok |-> TRUE, pool |-> got.pool,
                   memory |-> PageTableMemory(got.address, configuration_pages(level),
                                              ReadWords(mem, address, size_in_bytes(level)))]

\* PageTableMemory::empty: a zeroed backing region.
PageTableMemory_empty(free, level) ==
    LET got == acquire_continous_pages(free, configuration_pages(level), PageBytes)
    IN  IF ~got.ok THEN [ok |-> FALSE, error |-> got.error]
        ELSE [ok |-> TRUE, pool |-> got.pool,
              memory |-> PageTableMemory(got.address, configuration_pages(level),
                                         [i \in 0..(entries(level) - 1) |-> 0])]

\* PageTableMemory::set_entry: the raw word at index becomes the encoding of
\* the logical entry.
PageTableMemory_set_entry(memory, index, entry) ==
    [memory EXCEPT !.raw[index] = PageTableEntry_encode(entry)]

(***************************************************************************)
(* page_table.rs                                                           *)
(***************************************************************************)
PageTable(level, memory, ents) ==
    [level |-> level, page_table_memory |-> memory, entries |-> ents]

\* Vec<PageTableEntry>: indexed from 0.
EmptyVec == [i \in {} |-> NotValid]
VecLen(v) == Cardinality(DOMAIN v)
VecPush(v, e) == [i \in 0..VecLen(v) |-> IF i \in DOMAIN v THEN v[i] ELSE e]

RECURSIVE PageTable_drop(_)

\* Dropping a PageTableEntry value: a Leaf drops its Page, which returns to
\* the tracker; a Pointer drops its PageTable; the others own nothing.
PageTableEntry_drop(entry) ==
    CASE entry.kind = "Leaf" -> FramesOf(entry.page.address, entry.page.size)
      [] entry.kind = "Pointer" -> PageTable_drop(entry.page_table)
      [] OTHER -> {}

\* Mutant of PageTable_drop: the pages of the Leaf entries and the backing
\* region are released, the child tables of Pointer entries are not dropped.
PageTable_drop_skips_child_tables(self) ==
    UNION {IF self.entries[i].kind = "Leaf"
           THEN FramesOf(self.entries[i].page.address, self.entries[i].page.size)
           ELSE {} : i \in DOMAIN self.entries}
    \cup MemoryFrames(self.page_table_memory)

\* Drop for PageTable: the frames that are released. Every Leaf page is
\* released to the tracker, every child table is dropped in turn, and the
\* backing region goes with the table.
PageTable_drop(self) ==
    UNION {IF self.entries[i].kind = "Leaf"
           THEN FramesOf(self.entries[i].page.address, self.entries[i].page.size)
           ELSE PageTableEntry_drop(self.entries[i]) : i \in DOMAIN self.entries}
    \cup MemoryFrames(self.page_table_memory)

RECURSIVE PageTable_copy_from_non_confidential_memory(_, _, _, _)

\* Mutant of lower_or_corrupted: the missing lower level is reported with
\* another error kind.
lower_or_configuration_error(level) ==
    IF lower(level).some
    THEN [ok |-> TRUE, level |-> lower(level).level]
    ELSE [ok |-> FALSE, error |-> "PageTableConfiguration"]

\* level.lower().ok_or(Error::PageTableCorrupted()) (page_table.rs:72)
lower_or_corrupted(level) ==
    IF lower(level).some
    THEN [ok |-> TRUE, level |-> lower(level).level]
    ELSE [ok |-> FALSE, error |-> "PageTableCorrupted"]

\* Where a deep copy failed: the level of the table and the raw word of the
\* entry being copied (-1: the backing region of the table itself).
FailedAt(level, entry_raw) == [level |-> level, entry_raw |-> entry_raw]
NowhereFailed == FailedAt(0, 0)

\* Mutant of copy_leaf_entry: the Leaf keeps pointing at the hypervisor's
\* page instead of the page acquired from the tracker.
copy_leaf_entry_not_rehomed(page, entry_raw) ==
    Leaf([page EXCEPT !.address = PageTableAddress_decode(entry_raw)],
         PageTableConfiguration_decode(entry_raw), PageTablePermission_decode(entry_raw))

\* Mutant of copy_leaf_entry: the permission bits of the source are lost.
copy_leaf_entry_shared_permission(page, entry_raw) ==
    Leaf(page, PageTableConfiguration_decode(entry_raw), shared_page_permission)

\* The Leaf entry of the deep copy (page_table.rs:68-70): it owns the page
\* acquired from the tracker and keeps the source's configuration and
\* permission bits.
copy_leaf_entry(page, entry_raw) ==
    Leaf(page, PageTableConfiguration_decode(entry_raw), PageTablePermission_decode(entry_raw))

\* The closure of the deep copy for one index (page_table.rs:57-80), up to
\* the logical entry; pool is the tracker's pool when the closure returns.
copy_entry(mem, free, memory, index, level) ==
    LET entry_raw == memory.raw[index]
    IN  IF ~is_valid(entry_raw)
        THEN [ok |-> TRUE, pool |-> free, entry |-> NotValid]
        ELSE IF is_leaf(entry_raw)
        THEN LET address == NonConfidentialMemoryAddress_new(PageTableAddress_decode(entry_raw))
             IN  IF ~address.ok
                 THEN [ok |-> FALSE, error |-> address.error, pool |-> free,
                       at |-> FailedAt(level, entry_raw)]
                 ELSE Bind(acquire_continous_pages(free, 1, page_size(level)), LAMBDA got :
                      IF ~got.ok
                      THEN [ok |-> FALSE, error |-> got.error, pool |-> free,
                            at |-> FailedAt(level, entry_raw)]
                      ELSE LET acquired == Page(got.address, page_size(level), EmptyVec)
                               page == Page_copy_from_non_confidential_memory(
                                           mem, acquired, address.address)
                           IN  IF ~page.ok
                               THEN [ok |-> FALSE, error |-> "PageTableCorrupted",
                                     pool |-> release_page(got.pool, acquired),
                                     at |-> FailedAt(level, entry_raw)]
                               ELSE [ok |-> TRUE, pool |-> got.pool,
                                     entry |-> copy_leaf_entry(page.page, entry_raw)])
        ELSE LET lower_level == lower_or_corrupted(level)
             IN  IF ~lower_level.ok
                 THEN [ok |-> FALSE, error |-> lower_level.error, pool |-> free,
                       at |-> FailedAt(level, entry_raw)]
                 ELSE LET address == NonConfidentialMemoryAddress_new(
                                         PageTableAddress_decode(entry_raw))
                      IN  IF ~address.ok
                          THEN [ok |-> FALSE, error |-> address.error, pool |-> free,
                                at |-> FailedAt(level, entry_raw)]
                          ELSE Bind(PageTable_copy_from_non_confidential_memory(
                                        mem, free, address.address, lower_level.level),
                                    LAMBDA page_table :
                               IF ~page_table.ok
                               THEN [ok |-> FALSE, error |-> page_table.error,
                                     pool |-> page_table.pool, at |-> page_table.at]
                               ELSE [ok |-> TRUE, pool |-> page_table.pool,
                                     entry |-> Pointer(page_table.table,
                                               PageTableConfiguration_decode(entry_raw))])

RECURSIVE copy_entries(_, _, _, _)
\* Mutant of copy_entries: on the first error the entries collected so far
\* are forgotten without being dropped.
copy_entries_forgets_collected(mem, done, index, level) ==
    IF index = number_of_entries(done.memory)
    THEN [ok |-> TRUE, pool |-> done.pool, memory |-> done.memory, entries |-> done.entries]
    ELSE Bind(copy_entry(mem, done.pool, done.memory, index, level), LAMBDA r :
         IF ~r.ok
         THEN [ok |-> FALSE, error |-> r.error, at |-> r.at, pool |-> r.pool]
         ELSE Bind([pool |-> r.pool,
                    memory |-> PageTableMemory_set_entry(done.memory, index, r.entry),
                    entries |-> VecPush(done.entries, r.entry)],
                   LAMBDA next : copy_entries(mem, next, index + 1, level)))

\* The map over the indices and its collect (page_table.rs:55-81): the
\* first error ends it, and the entries collected so far are dropped.
\* done holds the pool, the backing region and the entries collected so far.
copy_entries(mem, done, index, level) ==
    IF index = number_of_entries(done.memory)
    THEN [ok |-> TRUE, pool |-> done.pool, memory |-> done.memory, entries |-> done.entries]
    ELSE Bind(copy_entry(mem, done.pool, done.memory, index, level), LAMBDA r :
         IF ~r.ok
         THEN [ok |-> FALSE, error |-> r.error, at |-> r.at,
               pool |-> r.pool \cup UNION {PageTableEntry_drop(done.entries[i]) :
                                              i \in DOMAIN done.entries}]
         ELSE Bind([pool |-> r.pool,
                    memory |-> PageTableMemory_set_entry(done.memory, index, r.entry),
                    entries |-> VecPush(done.entries, r.entry)],
                   LAMBDA next : copy_entries(mem, next, index + 1, level)))

\* PageTable::copy_from_non_confidential_memory
PageTable_copy_from_non_confidential_memory(mem, free, address, level) ==
    Bind(PageTableMemory_copy_from_non_confidential_memory(mem, free, address, level), LAMBDA m :
    IF ~m.ok
    THEN [ok |-> FALSE, error |-> m.error, pool |-> free, at |-> FailedAt(level, -1)]
    ELSE Bind(copy_entries(mem, [pool |-> m.pool, memory |-> m.memory, entries |-> EmptyVec],
                           0, level),
              LAMBDA c :
         IF ~c.ok
         THEN [ok |-> FALSE, error |-> c.error, at |-> c.at,
               pool |-> c.pool \cup MemoryFrames(m.memory)]
         ELSE [ok |-> TRUE, pool |-> c.pool, table |-> PageTable(level, c.memory, c.entries)]))

\* PageTable::empty: a zeroed backing region and a Vec with capacity for
\* its entries, and no entry in it.
PageTable_empty(free, level) ==
    LET m == PageTableMemory_empty(free, level)
    IN  IF ~m.ok
        THEN [ok |-> FALSE, error |-> m.error]
        ELSE [ok |-> TRUE, pool |-> m.pool, table |-> PageTable(level, m.memory, EmptyVec)]

\* Mutant of set_entry: the raw word is written and the page of a displaced
\* Leaf released, but the logical entry stays.
set_entry_keeps_logical_entry(self, free, index, entry) ==
    [table |-> [self EXCEPT
                  !.page_table_memory = PageTableMemory_set_entry(@, index, entry)],
     pool |-> IF self.entries[index].kind = "Leaf"
              THEN release_page(free, self.entries[index].page)
              ELSE free]

\* Mutant of set_entry: the target of a displaced Shared entry is released
\* to the tracker as if the entry had owned it.
set_entry_releases_shared_target(self, free, index, entry) ==
    [table |-> [self EXCEPT
                  !.page_table_memory = PageTableMemory_set_entry(@, index, entry),
                  !.entries[index] = entry],
     pool |-> CASE self.entries[index].kind = "Leaf" ->
                      release_page(free, self.entries[index].page)
                [] self.entries[index].kind = "Shared" ->
                      free \cup FramesOf(self.entries[index].address, PageBytes)
                [] OTHER -> free]

\* Mutant of set_entry: the page of a displaced Leaf is not released.
set_entry_leaks_displaced_page(self, free, index, entry) ==
    [table |-> [self EXCEPT
                  !.page_table_memory = PageTableMemory_set_entry(@, index, entry),
                  !.entries[index] = entry],
     pool |-> free]

\* PageTable::set_entry: mirror the entry into the backing region, replace
\* the logical entry, release the page of a displaced Leaf.
set_entry(self, free, index, entry) ==
    LET entry_to_remove == self.entries[index]
    IN  [table |-> [self EXCEPT
                      !.page_table_memory = PageTableMemory_set_entry(@, index, entry),
                      !.entries[index] = entry],
         pool |-> IF entry_to_remove.kind = "Leaf"
                  THEN release_page(free, entry_to_remove.page)
                  ELSE free \cup PageTableEntry_drop(entry_to_remove)]

\* SharedPage: a hypervisor page and the guest address it is mapped at.
SharedPage(hypervisor_address, confidential_vm_virtual_address) ==
    [hypervisor_address |-> hypervisor_address,
     confidential_vm_virtual_address |-> confidential_vm_virtual_address]

\* The Shared entry map_shared_page installs (page_table.rs:105-109).
shared_entry(shared_page) ==
    Shared(shared_page.hypervisor_address, shared_page_configuration, shared_page_permission)

RECURSIVE PageTable_map_shared_page(_, _, _)
\* PageTable::map_shared_page. empties lists the tables PageTable::empty
\* returned during the call, outermost first.
PageTable_map_shared_page(self, free, shared_page) ==
    LET virtual_page_number == vpn(shared_page.confidential_vm_virtual_address, self.level)
    IN  IF virtual_page_number \notin DOMAIN self.entries
        THEN [ok |-> FALSE, error |-> "PageTableConfiguration", table |-> self,
              pool |-> free, empties |-> <<>>]
        ELSE LET entry == self.entries[virtual_page_number]
             IN  CASE entry.kind = "Pointer" ->
                        Bind(PageTable_map_shared_page(entry.page_table, free, shared_page),
                             LAMBDA r :
                        IF ~r.ok
                        THEN [r EXCEPT !.table = self]
                        ELSE [r EXCEPT !.table =
                                [self EXCEPT !.entries[virtual_page_number].page_table = r.table]])
                   [] entry.kind \in {"Leaf", "Shared"} ->
                        Bind(set_entry(self, free, virtual_page_number, shared_entry(shared_page)),
                             LAMBDA s :
                        [ok |-> TRUE, error |-> "", table |-> s.table, pool |-> s.pool,
                         empties |-> <<>>])
                   [] entry.kind = "NotValid" ->
                        IF self.level = Level1
                        THEN Bind(set_entry(self, free, virtual_page_number,
                                            shared_entry(shared_page)),
                                  LAMBDA s :
                             [ok |-> TRUE, error |-> "", table |-> s.table, pool |-> s.pool,
                              empties |-> <<>>])
                        ELSE Bind(PageTable_empty(free, self.level), LAMBDA next_page_table :
                             IF ~next_page_table.ok
                             THEN [ok |-> FALSE, error |-> next_page_table.error,
                                   table |-> self, pool |-> free, empties |-> <<>>]
                             ELSE Bind(PageTable_map_shared_page(
                                           next_page_table.table, next_page_table.pool,
                                           shared_page),
                                       LAMBDA r :
                                  IF ~r.ok
                                  THEN [ok |-> FALSE, error |-> r.error, table |-> self,
                                        pool |-> r.pool \cup PageTable_drop(r.table),
                                        empties |-> <<next_page_table.table>> \o r.empties]
                                  ELSE Bind(set_entry(self, r.pool, virtual_page_number,
                                                Pointer(r.table, PageTableConfiguration_empty)),
                                            LAMBDA s :
                                       [ok |-> TRUE, error |-> "", table |-> s.table,
                                        pool |-> s.pool,
                                        empties |-> <<next_page_table.table>> \o r.empties])))

\* RootPageTable
NoRootPageTable == [kind |-> "None"]
RootPageTable(paging_system, page_table) ==
    [kind |-> "RootPageTable", paging_system |-> paging_system, page_table |-> page_table]

\* RootPageTable::copy_from_non_confidential_memory
RootPageTable_copy_from_non_confidential_memory(mem, free, address) ==
    Bind(PageTable_copy_from_non_confidential_memory(mem, free, address, levels),
         LAMBDA page_table :
    IF ~page_table.ok
    THEN [ok |-> FALSE, error |-> page_table.error, pool |-> page_table.pool,
          root |-> NoRootPageTable, at |-> page_table.at]
    ELSE [ok |-> TRUE, error |-> "", pool |-> page_table.pool,
          root |-> RootPageTable("Sv57x4", page_table.table), at |-> NowhereFailed])

\* Mutant of RootPageTable_map_shared_page: when the call fails, the tables
\* PageTable::empty created during it are not given back to the tracker.
RootPageTable_map_shared_page_leaks_new_tables(self, free, shared_page) ==
    Bind(PageTable_map_shared_page(self.page_table, free, shared_page), LAMBDA r :
    [ok |-> r.ok, error |-> r.error, empties |-> r.empties,
     pool |-> IF r.ok THEN r.pool
              ELSE r.pool \ UNION {MemoryFrames(r.empties[k].page_table_memory) :
                                      k \in DOMAIN r.empties},
     root |-> [self EXCEPT !.page_table = r.table]])

\* RootPageTable::map_shared_page
RootPageTable_map_shared_page(self, free, shared_page) ==
    Bind(PageTable_map_shared_page(self.page_table, free, shared_page), LAMBDA r :
    [ok |-> r.ok, error |-> r.error, pool |-> r.pool, empties |-> r.empties,
     root |-> [self EXCEPT !.page_table = r.table]])

(***************************************************************************)
(* The hypervisor's memory: the tables the hypervisor hands over and the   *)
(* data frames they map. Frame layout: the root table, then the tables of  *)
(* levels 4, 3, 2, 1, then the data frames.                                *)
(***************************************************************************)
\* Raw words as the hypervisor writes them.
HvPointerWord(frame) == frame * Pow2(PpnShift) + 1
HvLeafWord(frame, flags) == frame * Pow2(PpnShift) + flags
\* V R W X U A D, and V R U A.
FlagsRwx == 1 + 2 + 4 + 8 + 16 + 64 + 128
FlagsRo == 1 + 2 + 16 + 64

\* Content of the data frames: 0xAB in the first, other bytes in the rest.
HvDataWord(frame, i) == IF frame = HvDataFrame THEN 171 ELSE 16 * (frame - HvDataFrame) + i

\* The words the hypervisor may put at the varied places of its tables.
L1aWords == {HvLeafWord(HvDataFrame, FlagsRwx),        \* 4 KiB leaf
             HvPointerWord(HvTableFrame(1)),           \* pointer in a level-1 table
             0,                                        \* invalid
             HvLeafWord(NumNonConfFrames, FlagsRwx)}   \* leaf into confidential memory
L1bWords == {0, HvLeafWord(HvDataFrame + 1, FlagsRo)}
L2aWords == {HvPointerWord(HvTableFrame(1)),
             HvLeafWord(HvDataFrame, FlagsRwx),        \* 2 MiB leaf
             0}
L2bWords == {0, HvPointerWord(HvTableFrame(1))}         \* the level-1 table shared by two entries
L3aWords == {HvPointerWord(HvTableFrame(2)),
             HvPointerWord(HvTableFrame(3))}           \* a table pointing to itself
Root1Words == {0, HvPointerWord(HvTableFrame(4))}

HvTableWord(c, level, index) ==
    CASE level = 5 /\ index = 0 -> HvPointerWord(HvTableFrame(4))
      [] level = 5 /\ index = 1 -> c.root1
      [] level = 4 /\ index = 0 -> HvPointerWord(HvTableFrame(3))
      [] level = 3 /\ index = 0 -> c.l3a
      [] level = 2 /\ index = 0 -> c.l2a
      [] level = 2 /\ index = 1 -> c.l2b
      [] level = 1 /\ index = 0 -> c.l1a
      [] level = 1 /\ index = 1 -> c.l1b
      [] OTHER -> 0

HvMemory(c) ==
    [f \in NonConfFrames |->
        [i \in 0..(WordsPerPage - 1) |->
            IF f < configuration_pages(Level5) THEN HvTableWord(c, 5, f * WordsPerPage + i)
            ELSE IF f < HvDataFrame THEN HvTableWord(c, Level5 - 1 - (f - configuration_pages(Level5)), i)
            ELSE HvDataWord(f, i)]]

HvChoices ==
    [root1 : Root1Words, l3a : L3aWords, l2a : L2aWords, l2b : L2bWords,
     l1a : L1aWords, l1b : L1bWords]

\* The requests of the guest to share a page: guest addresses under the
\* first entries of the tables of levels 1, 2 and 3, and the hypervisor
\* pages offered for them.
SharedVirtualAddresses == {0, page_size(1), page_size(2), page_size(3)}
SharedHypervisorAddresses == {AddressOf(HvDataFrame), AddressOf(HvDataFrame + 1)}
SharedPages ==
    {SharedPage(h, v) : h \in SharedHypervisorAddresses, v \in SharedVirtualAddresses}

(***************************************************************************)
(* The page-table engine as a state machine.                               *)
(***************************************************************************)
NoOperation ==
    [op |-> "none", ok |-> TRUE, error |-> "", shared_page |-> SharedPage(0, 0),
     pool_before |-> {}, root_before |-> NoRootPageTable, empties |-> <<>>,
     at |-> NowhereFailed]

\* ESM: RootPageTable::copy_from_non_confidential_memory of the hypervisor's root.
CopyFromNonConfidentialMemory ==
    /\ root.kind = "None"
    /\ \E r \in {RootPageTable_copy_from_non_confidential_memory(nonconf, pool, HvRootAddress)} :
           /\ root' = r.root
           /\ pool' = r.pool
           /\ last' = [NoOperation EXCEPT !.op = "copy", !.ok = r.ok, !.error = r.error,
                                          !.pool_before = pool, !.root_before = root,
                                          !.at = r.at]
    /\ UNCHANGED <<nonconf, reserved, hartVars, cvms, writes>>

\* Page-in completion: RootPageTable::map_shared_page.
MapSharedPage ==
    /\ root.kind = "RootPageTable"
    /\ \E shared_page \in SharedPages :
          \E r \in {RootPageTable_map_shared_page(root, pool, shared_page)} :
              /\ root' = r.root
              /\ pool' = r.pool
              /\ last' = [op |-> "map_shared_page", ok |-> r.ok, error |-> r.error,
                          shared_page |-> shared_page, pool_before |-> pool,
                          root_before |-> root, empties |-> r.empties,
                          at |-> NowhereFailed]
    /\ UNCHANGED <<nonconf, reserved, hartVars, cvms, writes>>

\* Teardown of the CVM: the RootPageTable is dropped.
DropRootPageTable ==
    /\ root.kind = "RootPageTable"
    /\ root' = NoRootPageTable
    /\ pool' = pool \cup PageTable_drop(root.page_table)
    /\ last' = [NoOperation EXCEPT !.op = "drop", !.pool_before = pool, !.root_before = root]
    /\ UNCHANGED <<nonconf, reserved, hartVars, cvms, writes>>

(***************************************************************************)
(* control_data/confidential_hart.rs: the confidential hart.               *)
(* Register values are 64 bits wide and are only moved, never computed     *)
(* with: a value is the tuple of its four 16-bit limbs, highest first.     *)
(***************************************************************************)
GpRegisters == 0..31
FpRegisters == 0..31
\* GpRegister::a0 and GpRegister::a1 are x10 and x11
a0 == 10
a1 == 11
Zero64 == <<0, 0, 0, 0>>
\* 0x0000_0000_DEAD_BEEF
DeadBeef == <<0, 0, 57005, 48879>>
\* 0xFFFF_FFFF_FFFF_FFFF
Ones64 == <<65535, 65535, 65535, 65535>>

\* HartState::empty(id): every register and CSR zero.
HartState_empty(id) ==
    [id |-> id,
     gprs |-> [x \in GpRegisters |-> Zero64],
     fprs |-> [x \in FpRegisters |-> Zero64],
     mepc |-> 0, hgatp |-> 0, mtval |-> 0, mtval2 |-> 0,
     mideleg |-> 0, hideleg |-> 0, medeleg |-> 0, hedeleg |-> 0]

\* HartState::from_existing(id, from): the CSRs of the snapshot.
HartState_from_existing(id, from) ==
    [HartState_empty(id) EXCEPT
        !.mepc = from.mepc, !.hgatp = from.hgatp,
        !.mtval = from.mtval, !.mtval2 = from.mtval2,
        !.mideleg = from.mideleg, !.hideleg = from.hideleg,
        !.medeleg = from.medeleg, !.hedeleg = from.hedeleg]

\* HartState::set_gpr and HartState::gpr
set_gpr(state, register, value) == [state EXCEPT !.gprs[register] = value]
gpr(state, register) == state.gprs[register]

\* PendingRequest, and Option<PendingRequest>::None
SbiRequest == [kind |-> "SbiRequest"]
GuestLoadPageFault(instruction_length, result_gpr) ==
    [kind |-> "GuestLoadPageFault", instruction_length |-> instruction_length,
     result_gpr |-> result_gpr]
GuestStorePageFault(instruction_length) ==
    [kind |-> "GuestStorePageFault", instruction_length |-> instruction_length]
SharePage(address) == [kind |-> "SharePage", address |-> address]

\* ExposeToConfidentialVm
SbiResult(result_a0, result_a1, pc_offset) ==
    [kind |-> "SbiResult", a0 |-> result_a0, a1 |-> result_a1, pc_offset |-> pc_offset]
GuestLoadPageFaultResult(value, result_gpr, instruction_length) ==
    [kind |-> "GuestLoadPageFaultResult", value |-> value, result_gpr |-> result_gpr,
     instruction_length |-> instruction_length]
GuestStorePageFaultResult(instruction_length) ==
    [kind |-> "GuestStorePageFaultResult", instruction_length |-> instruction_length]
Resume == [kind |-> "Resume"]

\* mideleg: VS-level software, timer and external interrupts (0b010001000100)
VsInterruptDelegation == 1092
\* medeleg (0b1011001111111111)
ExceptionDelegation == 46079

NoHart == [kind |-> "None"]
ConfidentialHart(confidential_hart_state, pending_request, is_dummy_hart) ==
    [kind |-> "ConfidentialHart",
     confidential_hart_state |-> confidential_hart_state,
     pending_request |-> pending_request,
     dummy |-> is_dummy_hart]

\* ConfidentialHart::dummy
dummy(id) == ConfidentialHart(HartState_empty(id), None, TRUE)

\* Mutant of from_vm_hart_reset: the delegation masks of the snapshot stay.
from_vm_hart_reset_keeps_delegation(id, from) ==
    ConfidentialHart(HartState_from_existing(id, from), None, FALSE)

\* ConfidentialHart::from_vm_hart_reset
from_vm_hart_reset(id, from) ==
    ConfidentialHart(
        [HartState_from_existing(id, from) EXCEPT
            !.mideleg = VsInterruptDelegation, !.hideleg = VsInterruptDelegation,
            !.medeleg = ExceptionDelegation, !.hedeleg = ExceptionDelegation],
        None, FALSE)

\* Mutant of from_vm_hart: no pending request is installed.
from_vm_hart_without_request(id, from) ==
    [from_vm_hart_reset(id, from) EXCEPT
        !.confidential_hart_state.gprs = from.gprs,
        !.confidential_hart_state.fprs = from.fprs]

\* ConfidentialHart::from_vm_hart
from_vm_hart(id, from) ==
    [from_vm_hart_reset(id, from) EXCEPT
        !.confidential_hart_state.gprs = from.gprs,
        !.confidential_hart_state.fprs = from.fprs,
        !.pending_request = SbiRequest]

\* Mutant of take_request: the request is returned but stays in the slot.
take_request_keeps_slot(self) ==
    [hart |-> self, request |-> self.pending_request]

\* ConfidentialHart::take_request: Option::take
take_request(self) ==
    [hart |-> [self EXCEPT !.pending_request = None], request |-> self.pending_request]

\* ConfidentialHart::is_dummy
is_dummy(self) == self.dummy

\* Mutant of set_pending_request: a request already pending is overwritten.
set_pending_request_overwrites(self, request) ==
    [ok |-> TRUE, error |-> "", hart |-> [self EXCEPT !.pending_request = request]]

\* ConfidentialHart::set_pending_request
set_pending_request(self, request) ==
    IF self.pending_request # None
    THEN [ok |-> FALSE, error |-> "PendingRequest", hart |-> self]
    ELSE [ok |-> TRUE, error |-> "", hart |-> [self EXCEPT !.pending_request = request]]

\* Mutant of set_hgatp: mepc is cleared too.
set_hgatp_rewinds_mepc(self, hgatp) ==
    [self EXCEPT !.confidential_hart_state.hgatp = hgatp,
                 !.confidential_hart_state.mepc = 0]

\* ConfidentialHart::set_hgatp
set_hgatp(self, hgatp) == [self EXCEPT !.confidential_hart_state.hgatp = hgatp]

\* Mutant of apply_sbi_result: a1 is not written.
apply_sbi_result_without_a1(self, result) ==
    [self EXCEPT !.confidential_hart_state =
        [set_gpr(@, a0, result.a0) EXCEPT !.mepc = @ + result.pc_offset]]

\* ConfidentialHart::apply_sbi_result
apply_sbi_result(self, result) ==
    [self EXCEPT !.confidential_hart_state =
        [set_gpr(set_gpr(@, a0, result.a0), a1, result.a1) EXCEPT
            !.mepc = @ + result.pc_offset]]

\* Mutant of apply_guest_load_page_fault_result: mepc is left on the
\* faulting instruction.
apply_guest_load_page_fault_result_same_mepc(self, result) ==
    [self EXCEPT !.confidential_hart_state = set_gpr(@, result.result_gpr, result.value)]

\* ConfidentialHart::apply_guest_load_page_fault_result
apply_guest_load_page_fault_result(self, result) ==
    [self EXCEPT !.confidential_hart_state =
        [set_gpr(@, result.result_gpr, result.value) EXCEPT
            !.mepc = @ + result.instruction_length]]

\* ConfidentialHart::apply_guest_store_page_fault_result
apply_guest_store_page_fault_result(self, result) ==
    [self EXCEPT !.confidential_hart_state.mepc = @ + result.instruction_length]

\* ConfidentialHart::apply; the returned address of the hart state is not
\* part of the model.
apply(self, transformation) ==
    CASE transformation.kind = "SbiResult" -> apply_sbi_result(self, transformation)
      [] transformation.kind = "GuestLoadPageFaultResult" ->
            apply_guest_load_page_fault_result(self, transformation)
      [] transformation.kind = "GuestStorePageFaultResult" ->
            apply_guest_store_page_fault_result(self, transformation)
      [] transformation.kind = "Resume" -> self

\* The amount a transformation adds to mepc.
MepcAdvance(transformation) ==
    CASE transformation.kind = "SbiResult" -> transformation.pc_offset
      [] transformation.kind \in {"GuestLoadPageFaultResult", "GuestStorePageFaultResult"} ->
            transformation.instruction_length
      [] OTHER -> 0

(***************************************************************************)
(* Inputs of the hart operations.                                          *)
(***************************************************************************)
\* The address of the faulting lw of the MMIO load scenario (0x2000).
ScenarioMepc == 2 * Pow2(12)
\* The values of mepc the operations are exercised at.
MepcInRange(mepc) == mepc % ScenarioMepc <= MaxAdvance
InstructionLengths == {2, 4}
ResultGprs == {5, 15}
Values == {DeadBeef}
AllOnesMask == Pow2(16) - 1
\* The guest physical address of the MMIO access of the scenario
\* (0x1000_0000): mtval2 holds it shifted right by two, mtval its low bits.
FaultAddress == Pow2(28)
\* The hart states the hypervisor hands over: registers it chose, and
\* delegation masks that differ from the ones the monitor enforces.
HartSnapshots ==
    {[id |-> 0,
      gprs |-> [x \in GpRegisters |-> IF x = a0 THEN Ones64 ELSE IF x = 5 THEN v ELSE Zero64],
      fprs |-> [x \in FpRegisters |-> IF x = 1 THEN v ELSE Zero64],
      mepc |-> mepc, hgatp |-> 1, mtval |-> FaultAddress % 4, mtval2 |-> FaultAddress \div 4,
      mideleg |-> mask, hideleg |-> 0, medeleg |-> mask, hedeleg |-> mask]
        : v \in {Zero64, Ones64}, mepc \in {ScenarioMepc, ScenarioMepc + 2},
          mask \in {AllOnesMask}}
PendingRequests ==
    {SbiRequest, SharePage(HvDataFrame * PageBytes)}
        \cup {GuestLoadPageFault(4, x) : x \in ResultGprs}
        \cup {GuestStorePageFault(2)}
Transformations ==
    {Resume, SbiResult(Zero64, DeadBeef, 4)}
        \cup {GuestLoadPageFaultResult(v, x, n) :
                 v \in Values, x \in ResultGprs, n \in InstructionLengths}
        \cup {GuestStorePageFaultResult(n) : n \in InstructionLengths}
Hgatps == {2}

NoReturn == [op |-> "none", ok |-> TRUE, error |-> "", before |-> NoHart, input |-> None,
             value |-> None]
Return(op, ok, error, before, input, value) ==
    [op |-> op, ok |-> ok, error |-> error, before |-> before, input |-> input,
     value |-> value]
NoFlow == [where |-> "none", stored |-> <<>>, consumed |-> <<>>]

Init ==
    /\ \E c \in HvChoices : nonconf = HvMemory(c)
    /\ \E n \in {NumConfFrames, MidPool, SmallPool} :
          /\ pool = {f \in ConfFrames : f < NumNonConfFrames + n}
          /\ reserved = ConfFrames \ pool
    /\ root = NoRootPageTable
    /\ last = NoOperation
    /\ hart = NoHart
    /\ ret = NoReturn
    /\ flow = NoFlow
    /\ guest = Zero64
    /\ cvms = <<>>
    /\ writes = 0

Next ==
    \/ CopyFromNonConfidentialMemory
    \/ MapSharedPage
    \/ DropRootPageTable

Spec == Init /\ [][Next]_vars

(***************************************************************************)
(* Views of a page-table tree used by the properties.                      *)
(***************************************************************************)
RECURSIVE HasEntry(_, _, _)
\* Some table of the given level in the tree holds an entry of the kind.
HasEntry(table, kind, level) ==
    \E i \in DOMAIN table.entries :
        \/ table.level = level /\ table.entries[i].kind = kind
        \/ /\ table.entries[i].kind = "Pointer"
           /\ HasEntry(table.entries[i].page_table, kind, level)

RECURSIVE Owners(_, _)
\* The number of holders of a confidential frame in a tree: backing regions
\* and Leaf pages.
Owners(table, frame) ==
    (IF frame \in MemoryFrames(table.page_table_memory) THEN 1 ELSE 0)
    + LET count[k \in 0..VecLen(table.entries)] ==
              IF k = 0 THEN 0
              ELSE count[k - 1]
                   + (CASE table.entries[k - 1].kind = "Leaf" ->
                             IF frame \in FramesOf(table.entries[k - 1].page.address,
                                                   table.entries[k - 1].page.size)
                             THEN 1 ELSE 0
                        [] table.entries[k - 1].kind = "Pointer" ->
                             Owners(table.entries[k - 1].page_table, frame)
                        [] OTHER -> 0)
      IN  count[VecLen(table.entries)]

RootOwners(frame) ==
    IF root.kind = "RootPageTable" THEN Owners(root.page_table, frame) ELSE 0

\* The guest addresses of the 4 KiB pages that the root's vpn can reach.
GuestPages ==
    {k * PageBytes : k \in 0..((Pow2(VpnBits + 1) * page_size(Level5)) \div PageBytes - 1)}
\* The offset of the 4 KiB page of a guest address inside the page of a level.
PageOffset(virtual_address, level) ==
    ((virtual_address % page_size(level)) \div PageBytes) * PageBytes

Unmapped == [mapped |-> FALSE]

RECURSIVE HvWalk(_, _, _, _)
\* The translation of a guest address by the hypervisor's table at address:
\* configuration, permission and content of the 4 KiB page it maps.
HvWalk(mem, address, level, virtual_address) ==
    LET entry_raw == ReadWord(mem, address + vpn(virtual_address, level) * entry_size)
    IN  IF ~is_valid(entry_raw) THEN Unmapped
        ELSE IF is_leaf(entry_raw)
        THEN [mapped |-> TRUE,
              configuration |-> PageTableConfiguration_decode(entry_raw),
              permission |-> PageTablePermission_decode(entry_raw),
              data |-> ReadWords(mem, PageTableAddress_decode(entry_raw)
                                      + PageOffset(virtual_address, level), PageBytes)]
        ELSE IF level = Level1 THEN Unmapped
        ELSE HvWalk(mem, PageTableAddress_decode(entry_raw), level - 1, virtual_address)

RECURSIVE TreeWalk(_, _)
\* The translation of a guest address by a table of the CVM's tree, as the
\* hardware walks it: the raw words of the backing regions, each followed
\* to the page or the table that lies at the address it holds.
TreeWalk(table, virtual_address) ==
    LET index == vpn(virtual_address, table.level)
        entry_raw == table.page_table_memory.raw[index]
        entry == table.entries[index]
        first == PageOffset(virtual_address, table.level) \div entry_size
    IN  IF ~is_valid(entry_raw) THEN Unmapped
        ELSE IF is_leaf(entry_raw)
        THEN IF entry.kind = "Leaf" /\ entry.page.address = PageTableAddress_decode(entry_raw)
             THEN [mapped |-> TRUE,
                   configuration |-> PageTableConfiguration_decode(entry_raw),
                   permission |-> PageTablePermission_decode(entry_raw),
                   data |-> [i \in 0..(WordsPerPage - 1) |-> entry.page.data[first + i]]]
             ELSE [mapped |-> TRUE, stray |-> PageTableAddress_decode(entry_raw)]
        ELSE IF /\ entry.kind = "Pointer"
                /\ entry.page_table.page_table_memory.address = PageTableAddress_decode(entry_raw)
             THEN TreeWalk(entry.page_table, virtual_address)
             ELSE [mapped |-> TRUE, stray |-> PageTableAddress_decode(entry_raw)]

RECURSIVE HvHasPointerAtLevel1(_, _, _)
\* The hypervisor's table at address, or a table that valid pointer entries
\* lead to from it, has a valid non-leaf entry in a level-1 table.
HvHasPointerAtLevel1(mem, address, level) ==
    \E index \in 0..(entries(level) - 1) :
        LET entry_raw == ReadWord(mem, address + index * entry_size)
            target == PageTableAddress_decode(entry_raw)
        IN  /\ is_valid(entry_raw)
            /\ ~is_leaf(entry_raw)
            /\ \/ level = Level1
               \/ /\ level > Level1
                  /\ FramesOf(target, size_in_bytes(level - 1)) \subseteq NonConfFrames
                  /\ HvHasPointerAtLevel1(mem, target, level - 1)

IsPointerWord(entry_raw) == entry_raw >= 0 /\ is_valid(entry_raw) /\ ~is_leaf(entry_raw)

(***************************************************************************)
(* Properties of the page-table engine.                                    *)
(***************************************************************************)
RECURSIVE OnlySharedLeavesConfidentialMemory(_)
OnlySharedLeavesConfidentialMemory(table) ==
    \A i \in DOMAIN table.entries :
        LET entry == table.entries[i]
            target == PageTableAddress_decode(table.page_table_memory.raw[i])
        IN  CASE entry.kind = "Leaf" ->
                    /\ FramesOf(entry.page.address, entry.page.size) \subseteq ConfFrames
                    /\ IsConfidential(target)
              [] entry.kind = "Pointer" ->
                    /\ MemoryFrames(entry.page_table.page_table_memory) \subseteq ConfFrames
                    /\ IsConfidential(target)
                    /\ OnlySharedLeavesConfidentialMemory(entry.page_table)
              [] entry.kind = "Shared" -> TRUE
              [] OTHER -> ~is_valid(table.page_table_memory.raw[i])

\* C1: after the deep copy and any sequence of map_shared_page calls, every
\* Leaf entry at every level owns a page of confidential memory, every
\* Pointer entry a table in confidential memory, and the raw words of these
\* entries hold confidential addresses: only Shared entries reference
\* non-confidential memory.
C1_LeavesInConfidentialMemory ==
    root.kind = "RootPageTable" =>
        /\ MemoryFrames(root.page_table.page_table_memory) \subseteq ConfFrames
        /\ OnlySharedLeavesConfidentialMemory(root.page_table)

\* C1 witness: a tree that holds a 2 MiB Leaf, a 4 KiB Leaf and, after a
\* successful map_shared_page, a Shared entry.
C1_Witness ==
    /\ root.kind = "RootPageTable"
    /\ last.op = "map_shared_page" /\ last.ok
    /\ HasEntry(root.page_table, "Leaf", 2)
    /\ HasEntry(root.page_table, "Leaf", 1)
    /\ HasEntry(root.page_table, "Shared", 1)

\* C2: at every point between operations each confidential frame has exactly
\* one holder: the tracker's free pool, a backing region or Leaf page of the
\* CVM's tree, or an owner outside this CVM. Hence pool + owned = total.
C2_OwnershipConservation ==
    \A frame \in ConfFrames :
        (IF frame \in pool THEN 1 ELSE 0) + (IF frame \in reserved THEN 1 ELSE 0)
        + RootOwners(frame) = 1

\* C2 witness: a map_shared_page call displaced a Leaf, whose page went back
\* to the pool.
C2_Witness ==
    /\ last.op = "map_shared_page" /\ last.ok
    /\ pool # last.pool_before
    /\ root.kind = "RootPageTable"

RECURSIVE RawAgreesWithLogical(_)
RawAgreesWithLogical(table) ==
    \A i \in 0..(entries(table.level) - 1) :
        /\ i \in DOMAIN table.entries
        /\ PageTableEntry_encode(table.entries[i]) = table.page_table_memory.raw[i]
        /\ table.entries[i].kind = "Pointer" => RawAgreesWithLogical(table.entries[i].page_table)

\* C3 restricted to the tables linked into the tree: in each of them every
\* index below entries(level) has a logical entry whose encoding is the raw
\* word at that index.
C3_LinkedTablesAgree ==
    root.kind = "RootPageTable" => RawAgreesWithLogical(root.page_table)

\* C3: after a deep copy and after every map_shared_page call, in every
\* PageTable of the tree and in every table PageTable::empty created during
\* the call, for every index i below entries(level), logical entry i exists
\* and its encoding equals raw word i of the backing region.
C3_RawAgreesWithLogical ==
    /\ C3_LinkedTablesAgree
    /\ \A k \in DOMAIN last.empties : RawAgreesWithLogical(last.empties[k])

\* C4: when the deep copy of the hypervisor's table succeeds, every guest
\* address is mapped by the copy exactly when the hypervisor's table maps
\* it, with the same configuration and permission bits, and to a page that
\* holds the bytes the hypervisor's table mapped there.
C4_DeepCopyRoundTrip ==
    (last.op = "copy" /\ last.ok) =>
        \A virtual_address \in GuestPages :
            TreeWalk(root.page_table, virtual_address)
                = HvWalk(nonconf, HvRootAddress, levels, virtual_address)

\* C4 witness: a successful deep copy of a table that maps a 2 MiB page and
\* 4 KiB pages with different permissions.
C4_Witness ==
    /\ last.op = "copy" /\ last.ok
    /\ HasEntry(root.page_table, "Leaf", 2)
    /\ \E a, b \in GuestPages :
          /\ TreeWalk(root.page_table, a).mapped
          /\ TreeWalk(root.page_table, b).mapped
          /\ TreeWalk(root.page_table, a).permission # TreeWalk(root.page_table, b).permission

\* C10 as stated: deep-copying a hypervisor table that has a valid non-leaf
\* entry in a level-1 table fails with PageTableCorrupted and produces no
\* RootPageTable.
C10_PointerAtLevel1IsCorrupted ==
    (last.op = "copy" /\ HvHasPointerAtLevel1(nonconf, HvRootAddress, levels)) =>
        /\ ~last.ok
        /\ last.error = "PageTableCorrupted"
        /\ root.kind = "None"

\* C10 amended: such a deep copy always fails and produces no
\* RootPageTable; the error is PageTableCorrupted whenever the copy gets as
\* far as a valid non-leaf entry of a level-1 table, and otherwise it is the
\* error of the step that failed before: OutOfMemory from the tracker or
\* the address error of an entry copied earlier.
C10_PointerAtLevel1Refused ==
    (last.op = "copy" /\ HvHasPointerAtLevel1(nonconf, HvRootAddress, levels)) =>
        /\ ~last.ok
        /\ root.kind = "None"
        /\ (last.at.level = Level1 /\ IsPointerWord(last.at.entry_raw))
              => last.error = "PageTableCorrupted"
        /\ last.error # "PageTableCorrupted"
              => /\ last.error \in {"OutOfMemory", "InvalidAddress"}
                 /\ ~(last.at.level = Level1 /\ IsPointerWord(last.at.entry_raw))

\* C10 witness: a deep copy that reached a pointer entry in a level-1 table
\* and failed there.
C10_Witness ==
    /\ last.op = "copy" /\ ~last.ok
    /\ HvHasPointerAtLevel1(nonconf, HvRootAddress, levels)
    /\ last.at.level = Level1 /\ IsPointerWord(last.at.entry_raw)
    /\ last.error = "PageTableCorrupted"
    /\ root.kind = "None"


(***************************************************************************)
(* The operations of one confidential hart, called in any order.           *)
(***************************************************************************)
HartPresent == hart.kind = "ConfidentialHart"

CreateDummy ==
    /\ ~HartPresent
    /\ hart' = dummy(0)
    /\ ret' = Return("dummy", TRUE, "", hart, None, None)
    /\ UNCHANGED <<ptVars, flow, guest>>

CreateFromVmHartReset ==
    /\ ~HartPresent
    /\ \E from \in HartSnapshots :
          /\ hart' = from_vm_hart_reset(0, from)
          /\ ret' = Return("from_vm_hart_reset", TRUE, "", hart, from, None)
    /\ UNCHANGED <<ptVars, flow, guest>>

CreateFromVmHart ==
    /\ ~HartPresent
    /\ \E from \in HartSnapshots :
          /\ hart' = from_vm_hart(0, from)
          /\ ret' = Return("from_vm_hart", TRUE, "", hart, from, None)
    /\ UNCHANGED <<ptVars, flow, guest>>

TakeRequest ==
    /\ HartPresent
    /\ \E r \in {take_request(hart)} :
          /\ hart' = r.hart
          /\ ret' = Return("take_request", TRUE, "", hart, None, r.request)
    /\ UNCHANGED <<ptVars, flow, guest>>

SetPendingRequest ==
    /\ HartPresent
    /\ \E request \in PendingRequests :
          \E r \in {set_pending_request(hart, request)} :
              /\ hart' = r.hart
              /\ ret' = Return("set_pending_request", r.ok, r.error, hart, request, None)
    /\ UNCHANGED <<ptVars, flow, guest>>

SetHgatp ==
    /\ HartPresent
    /\ \E hgatp \in Hgatps :
          /\ hart' = set_hgatp(hart, hgatp)
          /\ ret' = Return("set_hgatp", TRUE, "", hart, hgatp, None)
    /\ UNCHANGED <<ptVars, flow, guest>>

Apply ==
    /\ HartPresent
    /\ \E transformation \in Transformations :
          /\ MepcInRange(hart.confidential_hart_state.mepc + MepcAdvance(transformation))
          /\ hart' = apply(hart, transformation)
          /\ ret' = Return("apply", TRUE, "", hart, transformation, None)
    /\ UNCHANGED <<ptVars, flow, guest>>

InitHart ==
    /\ nonconf = HvMemory(CHOOSE c \in HvChoices : TRUE)
    /\ pool = ConfFrames
    /\ reserved = {}
    /\ root = NoRootPageTable
    /\ last = NoOperation
    /\ hart = NoHart
    /\ ret = NoReturn
    /\ flow = NoFlow
    /\ guest = Zero64
    /\ cvms = <<>>
    /\ writes = 0

NextHart ==
    \/ CreateDummy
    \/ CreateFromVmHartReset
    \/ CreateFromVmHart
    \/ TakeRequest
    \/ SetPendingRequest
    \/ SetHgatp
    \/ Apply

SpecHart == InitHart /\ [][NextHart]_vars

(***************************************************************************)
(* The trap-handle and resume steps of one confidential hart: the          *)
(* confidential flow stores the request of a trap and hands the hart to    *)
(* the hypervisor; the non-confidential flow takes the request, applies    *)
(* the transformation that answers it and re-enters the guest.             *)
(***************************************************************************)
\* The transformations that answer a pending request.
Answers(request) ==
    CASE request = None -> {Resume}
      [] request.kind = "SbiRequest" -> {SbiResult(Zero64, DeadBeef, 4)}
      [] request.kind = "SharePage" -> {SbiResult(Zero64, Zero64, 4)}
      [] request.kind = "GuestLoadPageFault" ->
            {GuestLoadPageFaultResult(v, request.result_gpr, request.instruction_length)
                : v \in Values}
      [] request.kind = "GuestStorePageFault" ->
            {GuestStorePageFaultResult(request.instruction_length)}

\* ESM: the calling hart becomes a confidential hart with a pending
\* SbiRequest and control returns to the hypervisor.
EnterSecureMode ==
    /\ flow.where = "none"
    /\ \E from \in HartSnapshots :
          /\ hart' = from_vm_hart(0, from)
          /\ ret' = Return("from_vm_hart", TRUE, "", hart, from, None)
    /\ flow' = [where |-> "hypervisor", stored |-> <<SbiRequest>>, consumed |-> <<>>]
    /\ UNCHANGED <<ptVars, guest>>

\* A trap the monitor answers itself: build the SbiResult, apply, resume.
TrapAnsweredLocally ==
    /\ flow.where = "guest"
    /\ \E transformation \in {SbiResult(Ones64, Zero64, 4)} :
          /\ MepcInRange(hart.confidential_hart_state.mepc + MepcAdvance(transformation))
          /\ hart' = apply(hart, transformation)
          /\ ret' = Return("apply", TRUE, "", hart, transformation, None)
    /\ UNCHANGED <<ptVars, flow, guest>>

\* A trap that needs the hypervisor: store the request, switch flow.
TrapForwarded ==
    /\ flow.where = "guest"
    /\ Len(flow.stored) < MaxTraps
    /\ \E request \in PendingRequests :
          \E r \in {set_pending_request(hart, request)} :
              /\ hart' = r.hart
              /\ ret' = Return("set_pending_request", r.ok, r.error, hart, request, None)
              /\ flow' = IF r.ok
                         THEN [flow EXCEPT !.where = "hypervisor",
                                           !.stored = Append(@, request)]
                         ELSE flow
    /\ UNCHANGED <<ptVars, guest>>

\* The return from the hypervisor: take the request, apply the
\* transformation that answers it, re-enter the guest.
ResumeHart ==
    /\ flow.where = "hypervisor"
    /\ \E r \in {take_request(hart)} :
          \E transformation \in Answers(r.request) :
              /\ MepcInRange(r.hart.confidential_hart_state.mepc + MepcAdvance(transformation))
              /\ hart' = apply(r.hart, transformation)
              /\ ret' = Return("take_request", TRUE, "", hart, transformation, r.request)
              /\ flow' = [flow EXCEPT !.where = "guest",
                                      !.consumed = IF r.request = None THEN @
                                                   ELSE Append(@, r.request)]
    /\ UNCHANGED <<ptVars, guest>>

NextFlow ==
    \/ EnterSecureMode
    \/ TrapAnsweredLocally
    \/ TrapForwarded
    \/ ResumeHart

SpecFlow == InitHart /\ [][NextFlow]_vars

(***************************************************************************)
(* Properties of the confidential hart.                                    *)
(***************************************************************************)
\* C5: set_pending_request on a hart that holds a pending request returns
\* Error::PendingRequest and leaves the hart, the stored request included,
\* as it was; on a hart with an empty slot it returns Ok and the slot holds
\* the request.
C5_SecondPendingRequestRefused ==
    ret.op = "set_pending_request" =>
        IF ret.before.pending_request # None
        THEN /\ ~ret.ok
             /\ ret.error = "PendingRequest"
             /\ hart = ret.before
        ELSE /\ ret.ok
             /\ hart = [ret.before EXCEPT !.pending_request = ret.input]

\* C5 witness: a request stored by a successful call survives a second
\* call with another request, which fails.
C5_Witness ==
    /\ ret.op = "set_pending_request"
    /\ ~ret.ok
    /\ ~hart.dummy
    /\ hart.pending_request.kind = "GuestLoadPageFault"
    /\ ret.input.kind = "SharePage"

\* C6: in any sequence of trap-handle and resume steps of a hart, the
\* requests that resumes have taken are, in order, the requests that traps
\* have stored: all of them while the hart runs in the guest, where the slot
\* is empty, and all but the last one, which is in the slot, while the
\* hypervisor works on it. No request is lost, overwritten or taken twice.
C6_RequestConsumedByOneResume ==
    /\ flow.where = "guest" =>
          /\ hart.pending_request = None
          /\ flow.consumed = flow.stored
    /\ flow.where = "hypervisor" =>
          /\ flow.stored # <<>>
          /\ hart.pending_request = flow.stored[Len(flow.stored)]
          /\ flow.consumed = SubSeq(flow.stored, 1, Len(flow.stored) - 1)
    /\ (flow.where # "none" /\ ret.op = "take_request") =>
          /\ ret.value # None
          /\ ret.value = ret.before.pending_request
          /\ hart = apply([ret.before EXCEPT !.pending_request = None], ret.input)

\* C6 witness: the hart is back in the guest after MaxTraps requests, the
\* second a load page fault, were each stored by a trap and taken by a resume.
C6_Witness ==
    /\ flow.where = "guest"
    /\ Len(flow.consumed) = MaxTraps
    /\ flow.consumed[2].kind = "GuestLoadPageFault"
    /\ flow.consumed[MaxTraps].kind = "SharePage"
    /\ ret.op = "take_request"

\* C7: applying a GuestLoadPageFaultResult or a GuestStorePageFaultResult
\* sets mepc to the previous mepc plus the instruction length of the result,
\* and the load result writes its value into the GPR named by result_gpr;
\* for lw x5 at mepc 0x2000 and value 0xDEADBEEF, x5 = 0xDEADBEEF and
\* mepc = 0x2004 afterwards.
C7_PageFaultResultAdvancesMepc ==
    (ret.op = "apply" /\ ret.input.kind \in {"GuestLoadPageFaultResult",
                                              "GuestStorePageFaultResult"}) =>
        /\ hart.confidential_hart_state.mepc
              = ret.before.confidential_hart_state.mepc + ret.input.instruction_length
        /\ ret.input.kind = "GuestLoadPageFaultResult" =>
              gpr(hart.confidential_hart_state, ret.input.result_gpr) = ret.input.value
        /\ (/\ ret.input = GuestLoadPageFaultResult(DeadBeef, 5, 4)
            /\ ret.before.confidential_hart_state.mepc = ScenarioMepc) =>
              /\ gpr(hart.confidential_hart_state, 5) = DeadBeef
              /\ hart.confidential_hart_state.mepc = ScenarioMepc + 4

\* C7 witness: the result of lw x5 with value 0xDEADBEEF applied at mepc
\* 0x2000 to a hart whose x5 held another value.
C7_Witness ==
    /\ ret.op = "apply"
    /\ ret.input = GuestLoadPageFaultResult(DeadBeef, 5, 4)
    /\ ret.before.confidential_hart_state.mepc = ScenarioMepc
    /\ gpr(ret.before.confidential_hart_state, 5) = Ones64
    /\ gpr(hart.confidential_hart_state, 5) = DeadBeef
    /\ hart.confidential_hart_state.mepc = ScenarioMepc + 4

DelegationMasks(state) == <<state.mideleg, state.hideleg, state.medeleg, state.hedeleg>>
ForcedDelegationMasks ==
    <<VsInterruptDelegation, VsInterruptDelegation, ExceptionDelegation, ExceptionDelegation>>

\* C8: a hart created by from_vm_hart_reset or from_vm_hart has
\* mideleg = hideleg = 0b0100_0100_0100 and medeleg = hedeleg = 0xB3FF
\* whatever the snapshot held, and set_hgatp, set_pending_request,
\* take_request and apply leave the four registers as they were.
C8_DelegationMasksForced ==
    /\ ret.op \in {"from_vm_hart_reset", "from_vm_hart"} =>
          DelegationMasks(hart.confidential_hart_state) = ForcedDelegationMasks
    /\ ret.op \in {"set_hgatp", "set_pending_request", "take_request", "apply"} =>
          DelegationMasks(hart.confidential_hart_state)
              = DelegationMasks(ret.before.confidential_hart_state)
    /\ (HartPresent /\ ~hart.dummy) =>
          DelegationMasks(hart.confidential_hart_state) = ForcedDelegationMasks

\* C8 witness: a hart made from a snapshot, none of which holds the forced
\* masks, after apply, set_pending_request and set_hgatp have acted on it.
C8_Witness ==
    /\ ret.op = "set_hgatp"
    /\ ~hart.dummy
    /\ hart.confidential_hart_state.hgatp = 2
    /\ hart.pending_request = SharePage(HvDataFrame * PageBytes)
    /\ hart.confidential_hart_state.mepc = ScenarioMepc + 6
    /\ \A from \in HartSnapshots : DelegationMasks(from) # ForcedDelegationMasks
    /\ DelegationMasks(hart.confidential_hart_state) = ForcedDelegationMasks

\* C9: a hart created by from_vm_hart is not dummy, has the GPRs and FPRs
\* of the snapshot and holds a pending SbiRequest, which stays until
\* take_request, so that every set_pending_request before it fails; a hart
\* created by dummy or from_vm_hart_reset holds no pending request.
C9_FromVmHartHoldsSbiRequest ==
    /\ ret.op = "from_vm_hart" =>
          /\ ~is_dummy(hart)
          /\ hart.confidential_hart_state.gprs = ret.input.gprs
          /\ hart.confidential_hart_state.fprs = ret.input.fprs
          /\ hart.pending_request = SbiRequest
          /\ \A request \in PendingRequests :
                /\ ~set_pending_request(hart, request).ok
                /\ set_pending_request(hart, request).error = "PendingRequest"
    /\ (/\ ret.op \in {"set_hgatp", "set_pending_request", "apply"}
        /\ ret.before.pending_request = SbiRequest) =>
          hart.pending_request = SbiRequest
    /\ ret.op = "dummy" => (is_dummy(hart) /\ hart.pending_request = None)
    /\ ret.op = "from_vm_hart_reset" => (~is_dummy(hart) /\ hart.pending_request = None)

\* C9 witness: a set_pending_request that failed on a hart made by
\* from_vm_hart from a snapshot with non-zero registers.
C9_Witness ==
    /\ ret.op = "set_pending_request"
    /\ ~ret.ok
    /\ ret.before.pending_request = SbiRequest
    /\ ret.input.kind = "GuestStorePageFault"
    /\ gpr(hart.confidential_hart_state, 5) = Ones64
    /\ hart.confidential_hart_state.fprs[1] = Ones64
    /\ ~is_dummy(hart)

(***************************************************************************)
(* Properties of the failure paths and of the single cases of              *)
(* map_shared_page.                                                        *)
(***************************************************************************)
\* C11: when the deep copy fails, at whatever entry of whatever level and
\* with whatever error, the tracker's free pool is what it was before the
\* call: backing regions, Leaf pages copied into earlier entries and whole
\* sub-trees built before the failure are all back, and no tree exists.
C11_FailedCopyReleasesEverything ==
    (last.op = "copy" /\ ~last.ok) =>
        /\ pool = last.pool_before
        /\ root = NoRootPageTable
        /\ \A frame \in ConfFrames : RootOwners(frame) = 0

\* C11 witness: the root's first entry leads down to one 4 KiB leaf, its
\* second entry to the same tables again; the pool of MidPool frames
\* is enough for the first sub-tree and its Leaf page, and the copy runs out
\* of memory inside the second one.
C11_Witness ==
    /\ last.op = "copy" /\ ~last.ok
    /\ last.error = "OutOfMemory"
    /\ last.at.level < Level5 - 1
    /\ nonconf = HvMemory([root1 |-> HvPointerWord(HvTableFrame(4)),
                           l3a |-> HvPointerWord(HvTableFrame(2)),
                           l2a |-> HvPointerWord(HvTableFrame(1)),
                           l2b |-> 0,
                           l1a |-> HvLeafWord(HvDataFrame, FlagsRwx),
                           l1b |-> 0])
    /\ Cardinality(last.pool_before) = MidPool
    /\ pool = last.pool_before

\* A valid leaf word whose decoded target is no legal non-confidential address.
IsLeafWordWithIllegalTarget(entry_raw) ==
    /\ entry_raw >= 0
    /\ is_valid(entry_raw)
    /\ is_leaf(entry_raw)
    /\ ~IsNonConfidential(PageTableAddress_decode(entry_raw))

\* C12: a deep copy that comes to a valid leaf entry whose decoded target
\* is not a legal non-confidential address fails with the error kind
\* PageTableCorrupted.
C12_IllegalLeafTargetIsCorrupted ==
    (last.op = "copy" /\ IsLeafWordWithIllegalTarget(last.at.entry_raw)) =>
        /\ ~last.ok
        /\ last.error = "PageTableCorrupted"

RECURSIVE WalkEnd(_, _)
\* The entry at which the walk of a guest address through the logical
\* entries ends, with the level of its table and its raw word.
WalkEnd(table, virtual_address) ==
    LET index == vpn(virtual_address, table.level)
    IN  IF index \notin DOMAIN table.entries
        THEN [level |-> table.level, entry |-> None, raw |-> -1]
        ELSE IF table.entries[index].kind = "Pointer"
        THEN WalkEnd(table.entries[index].page_table, virtual_address)
        ELSE [level |-> table.level, entry |-> table.entries[index],
              raw |-> table.page_table_memory.raw[index]]

\* The walk of the request's guest address before and after the last call.
EndBefore == WalkEnd(last.root_before.page_table, last.shared_page.confidential_vm_virtual_address)
EndAfter == WalkEnd(root.page_table, last.shared_page.confidential_vm_virtual_address)

\* The walk of the request's guest address resolves to the request's
\* hypervisor address with read, write and user set and execute clear.
ResolvesToSharedPage ==
    /\ EndAfter.entry.kind = "Shared"
    /\ EndAfter.entry.address = last.shared_page.hypervisor_address
    /\ EndAfter.raw = PageTableEntry_encode(EndAfter.entry)
    /\ PageTableAddress_decode(EndAfter.raw) = last.shared_page.hypervisor_address
    /\ PageTablePermission_decode(EndAfter.raw)
          = [read |-> 1, write |-> 1, execute |-> 0]
    /\ PageTableConfiguration_decode(EndAfter.raw).user = 1

\* C13: map_shared_page for a guest address whose walk reaches a NotValid
\* entry in a table above level 1, with a free page for each missing table,
\* succeeds, and afterwards the walk of that address ends in a Shared entry
\* of a level-1 table that resolves to the request's hypervisor address
\* with read, write and user set and execute clear.
C13_MapCreatesMissingTables ==
    (/\ last.op = "map_shared_page"
     /\ EndBefore.entry.kind = "NotValid"
     /\ EndBefore.level > Level1
     /\ Cardinality(last.pool_before) >= EndBefore.level - 1) =>
        /\ last.ok
        /\ EndAfter.level = Level1
        /\ ResolvesToSharedPage

RECURSIVE WithEntryAtWalkEnd(_, _, _)
\* The tree in which the entry where the walk of a guest address ends, and
\* its raw word, are replaced, and nothing else.
WithEntryAtWalkEnd(table, virtual_address, entry) ==
    LET index == vpn(virtual_address, table.level)
    IN  IF table.entries[index].kind = "Pointer"
        THEN [table EXCEPT !.entries[index].page_table =
                              WithEntryAtWalkEnd(@, virtual_address, entry)]
        ELSE [table EXCEPT !.entries[index] = entry,
                           !.page_table_memory.raw[index] = PageTableEntry_encode(entry)]

\* The Shared entry the request asks for: the hypervisor's address, user,
\* read and write, no execute.
RequestedSharedEntry ==
    [kind |-> "Shared", address |-> last.shared_page.hypervisor_address,
     configuration |-> [user |-> 1, global |-> 0, accessed |-> 0, dirty |-> 0],
     permission |-> [read |-> 1, write |-> 1, execute |-> 0]]

\* C14: when map_shared_page reaches a Leaf entry, the call succeeds, the
\* entry becomes Shared with the request's hypervisor address and the rest
\* of the tree stays; the page the Leaf owned, which was not free before,
\* is in the free pool afterwards and has no owner in the tree, and the
\* pool has grown by that page and nothing else.
C14_LeafBecomesSharedAndPageReleased ==
    (last.op = "map_shared_page" /\ EndBefore.entry.kind = "Leaf") =>
        LET frames == FramesOf(EndBefore.entry.page.address, EndBefore.entry.page.size)
        IN  /\ last.ok
            /\ EndAfter.entry = RequestedSharedEntry
            /\ root.page_table
                  = WithEntryAtWalkEnd(last.root_before.page_table,
                        last.shared_page.confidential_vm_virtual_address,
                        RequestedSharedEntry)
            /\ frames # {}
            /\ frames \cap last.pool_before = {}
            /\ pool = last.pool_before \cup frames
            /\ \A frame \in frames : RootOwners(frame) = 0

\* C14 witness: a 4 KiB Leaf of a level-1 table was shared and the pool
\* is one page larger than before.
C14_Witness ==
    /\ last.op = "map_shared_page" /\ last.ok
    /\ EndBefore.entry.kind = "Leaf"
    /\ EndBefore.level = Level1
    /\ EndAfter.entry.kind = "Shared"
    /\ Cardinality(pool) = Cardinality(last.pool_before) + 1

\* C15: when map_shared_page reaches an entry that is already Shared, the
\* call succeeds, the entry is a Shared entry with the new hypervisor
\* address, every other entry and raw word of the tree is as before, and
\* the free pool is as before: nothing is released.
C15_SharedIsRemappedInPlace ==
    (last.op = "map_shared_page" /\ EndBefore.entry.kind = "Shared") =>
        /\ last.ok
        /\ EndAfter.entry = RequestedSharedEntry
        /\ root.page_table
              = WithEntryAtWalkEnd(last.root_before.page_table,
                    last.shared_page.confidential_vm_virtual_address,
                    RequestedSharedEntry)
        /\ pool = last.pool_before
        /\ reserved \cup pool \subseteq ConfFrames

\* C15 witness: a Shared entry was remapped from one hypervisor page to
\* another.
C15_Witness ==
    /\ last.op = "map_shared_page" /\ last.ok
    /\ EndBefore.entry.kind = "Shared"
    /\ EndBefore.entry.address # last.shared_page.hypervisor_address
    /\ EndAfter.entry.kind = "Shared"
    /\ EndAfter.entry.address = last.shared_page.hypervisor_address
    /\ pool = last.pool_before

\* C16: when map_shared_page returns an error, every table of the tree has
\* the logical entries and the raw words it had before the call, and the
\* tracker's free pool is the pool of before the call.
C16_FailedMapChangesNothing ==
    (last.op = "map_shared_page" /\ ~last.ok) =>
        /\ root = last.root_before
        /\ pool = last.pool_before

\* C16 witness: a call that acquired the backing region of a new table and
\* then failed in the recursive step.
C16_Witness ==
    /\ last.op = "map_shared_page" /\ ~last.ok
    /\ last.error = "PageTableConfiguration"
    /\ last.empties # <<>>
    /\ MemoryFrames(last.empties[1].page_table_memory) \subseteq pool
    /\ root = last.root_before

RECURSIVE CountEntries(_, _)
\* The number of entries of a kind in the tables of a tree.
CountEntries(table, kind) ==
    LET count[k \in 0..VecLen(table.entries)] ==
            IF k = 0 THEN 0
            ELSE count[k - 1]
                 + (IF table.entries[k - 1].kind = kind THEN 1 ELSE 0)
                 + (IF table.entries[k - 1].kind = "Pointer"
                    THEN CountEntries(table.entries[k - 1].page_table, kind) ELSE 0)
    IN  count[VecLen(table.entries)]

\* The last call was a successful deep copy of a table that maps exactly
\* one 4 KiB leaf through one table per level.
CopiedOneLeafTable ==
    /\ last.op = "copy" /\ last.ok
    /\ CountEntries(root.page_table, "Leaf") = 1
    /\ HasEntry(root.page_table, "Leaf", Level1)
    /\ CountEntries(root.page_table, "Pointer") = Level5 - 1
    /\ CountEntries(root.page_table, "Shared") = 0

\* The number of 4 KiB pages the last call took from the free pool.
PagesTaken == Cardinality(last.pool_before) - Cardinality(pool)

\* C17 as stated: the deep copy of a 5-level table that maps exactly one
\* 4 KiB leaf, one table per level, takes exactly 1 + 5 pages from the
\* tracker: the leaf and one page per table.
C17_OneLeafCopyTakesSixPages ==
    CopiedOneLeafTable => PagesTaken = 1 + 5

\* C17 amended: that deep copy takes exactly 9 pages: one for the leaf, one
\* for each table of levels 4 to 1 and configuration_pages(Level5) = 4 for
\* the root table, whose 2048 entries of 8 bytes fill four 4 KiB pages.
C17_OneLeafCopyTakesNinePages ==
    CopiedOneLeafTable =>
        /\ PagesTaken = 9
        /\ PagesTaken = 1 + (Level5 - 1) + configuration_pages(Level5)
        /\ Cardinality(MemoryFrames(root.page_table.page_table_memory)) = 4

\* C17 witness: such a copy, whose only mapping reads back the bytes 0xAB
\* of the hypervisor's page.
C17_Witness ==
    /\ CopiedOneLeafTable
    /\ TreeWalk(root.page_table, 0).mapped
    /\ \A i \in 0..(WordsPerPage - 1) : TreeWalk(root.page_table, 0).data[i] = 171
    /\ PagesTaken = 9

\* The confidential frames a tree holds: its backing regions and Leaf pages.
FramesHeld(table) == {frame \in ConfFrames : Owners(table, frame) > 0}

\* C18: dropping the RootPageTable gives the tracker the page of every Leaf
\* entry at every level and the backing region of every table, and nothing
\* for Shared entries: the pool afterwards is the pool of before plus the
\* frames the tree held, it lies in confidential memory, and every
\* confidential frame the CVM had acquired is free again.
C18_DropReleasesWholeTree ==
    last.op = "drop" =>
        /\ root = NoRootPageTable
        /\ pool = last.pool_before \cup FramesHeld(last.root_before.page_table)
        /\ pool \subseteq ConfFrames
        /\ pool \cup reserved = ConfFrames

\* C18 witness: the drop of a tree that held a 2 MiB Leaf, a 4 KiB Leaf and
\* a Shared entry.
C18_Witness ==
    /\ last.op = "drop"
    /\ HasEntry(last.root_before.page_table, "Leaf", 2)
    /\ HasEntry(last.root_before.page_table, "Leaf", Level1)
    /\ HasEntry(last.root_before.page_table, "Shared", Level1)
    /\ pool \cup reserved = ConfFrames

\* C19: in every reachable tree every Shared entry sits in a level-1 table,
\* so that a shared mapping covers exactly 4 KiB, also after map_shared_page
\* has met a Leaf entry in a table above level 1.
C19_SharedOnlyAtLevel1 ==
    root.kind = "RootPageTable" =>
        \A level \in PageTableLevels \ {Level1} :
            ~HasEntry(root.page_table, "Shared", level)

\* C20: apply(SbiResult) sets a0 and a1 to the values of the result and
\* mepc to the previous mepc plus pc_offset, and nothing else of the hart
\* changes; apply(Resume) leaves the whole hart, every register and CSR,
\* as it was.
C20_SbiResultAndResume ==
    /\ (ret.op = "apply" /\ ret.input.kind = "SbiResult") =>
          /\ gpr(hart.confidential_hart_state, a0) = ret.input.a0
          /\ gpr(hart.confidential_hart_state, a1) = ret.input.a1
          /\ hart.confidential_hart_state.mepc
                = ret.before.confidential_hart_state.mepc + ret.input.pc_offset
          /\ hart = [ret.before EXCEPT
                        !.confidential_hart_state.gprs[a0] = ret.input.a0,
                        !.confidential_hart_state.gprs[a1] = ret.input.a1,
                        !.confidential_hart_state.mepc = @ + ret.input.pc_offset]
    /\ (ret.op = "apply" /\ ret.input.kind = "Resume") => hart = ret.before

\* C20 witness: an SbiResult applied to a hart made from a snapshot, whose
\* a0 and a1 held other values than the result's.
C20_Witness ==
    /\ ret.op = "apply"
    /\ ret.input = SbiResult(Zero64, DeadBeef, 4)
    /\ ~ret.before.dummy
    /\ gpr(ret.before.confidential_hart_state, a0) = Ones64
    /\ gpr(ret.before.confidential_hart_state, a1) = Zero64
    /\ gpr(hart.confidential_hart_state, a0) = Zero64
    /\ gpr(hart.confidential_hart_state, a1) = DeadBeef
    /\ hart.confidential_hart_state.mepc = ScenarioMepc + 4

(***************************************************************************)
(* Frame conditions of the hart operations.                                *)
(***************************************************************************)
\* The general-purpose registers an applied transformation names.
NamedGprs(transformation) ==
    CASE transformation.kind = "SbiResult" -> {a0, a1}
      [] transformation.kind = "GuestLoadPageFaultResult" -> {transformation.result_gpr}
      [] OTHER -> {}

\* Whether the transformation names mepc.
NamesMepc(transformation) == transformation.kind # "Resume"

\* C21: after construction the registers change only through apply.
\* set_pending_request and take_request change at most the pending-request
\* slot, set_hgatp changes at most hgatp, and apply leaves the
\* pending-request slot, the dummy flag, every floating-point register, every
\* CSR other than mepc and every general-purpose register the transformation
\* does not name as they were (mepc too when the transformation is Resume).
C21_RegistersChangeOnlyThroughApply ==
    /\ ret.op \in {"set_pending_request", "take_request"} =>
          hart = [ret.before EXCEPT !.pending_request = hart.pending_request]
    /\ ret.op = "set_hgatp" =>
          hart = [ret.before EXCEPT
                     !.confidential_hart_state.hgatp = hart.confidential_hart_state.hgatp]
    /\ ret.op = "apply" =>
          /\ hart.pending_request = ret.before.pending_request
          /\ hart.dummy = ret.before.dummy
          /\ \A x \in GpRegisters \ NamedGprs(ret.input) :
                gpr(hart.confidential_hart_state, x)
                    = gpr(ret.before.confidential_hart_state, x)
          /\ [hart.confidential_hart_state EXCEPT !.gprs = <<>>, !.mepc = 0]
                = [ret.before.confidential_hart_state EXCEPT !.gprs = <<>>, !.mepc = 0]
          /\ ~NamesMepc(ret.input) =>
                hart.confidential_hart_state.mepc
                    = ret.before.confidential_hart_state.mepc

\* C21 witness: set_hgatp changes hgatp of a hart that holds a pending
\* request and whose a1 and mepc an earlier apply has written.
C21_Witness ==
    /\ ret.op = "set_hgatp"
    /\ hart.confidential_hart_state.hgatp # ret.before.confidential_hart_state.hgatp
    /\ hart.pending_request # None
    /\ gpr(hart.confidential_hart_state, a1) = DeadBeef
    /\ hart.confidential_hart_state.mepc = ScenarioMepc + 4

(***************************************************************************)
(* Trap decoding: the faulting instruction is read at mepc, trimmed to its *)
(* length, and the register the access transfers is decoded from it.  An   *)
(* instruction word is a usize, written as its four 16-bit limbs like the  *)
(* registers; every field the decoder reads lies in the two lowest limbs.  *)
(***************************************************************************)
Low16(word) == word[4]
High16(word) == word[3]

\* x & m for x, m below 2^17
RECURSIVE BitAndFrom(_, _, _)
BitAndFrom(x, m, k) ==
    IF k > 16 THEN 0 ELSE Bit(x, k) * Bit(m, k) * Pow2(k) + BitAndFrom(x, m, k + 1)
BitAnd(x, m) == BitAndFrom(x, m, 0)

\* riscv_decode::instruction_length, by the length encoding of the ISA:
\* the lowest bits of the first halfword give the length in bytes.
instruction_length(halfword) ==
    IF halfword % 4 # 3 THEN 2
    ELSE IF (halfword \div 4) % 8 # 7 THEN 4
    ELSE IF halfword % 64 = 31 THEN 6
    ELSE IF halfword % 128 = 63 THEN 8
    ELSE 10 + 2 * ((halfword \div 4096) % 8)

\* riscv_decode::decode(mtinst as u32), as far as read_result_gpr looks at
\* it: the loads (opcode 0000011) and stores (opcode 0100011) of the base
\* ISA with rd in bits [11:7] and rs2 in bits [24:20]; a word of another
\* opcode, of an undefined width, or a compressed one is none of the eleven
\* instructions the match names.
riscv_decode(mtinst) ==
    LET low == Low16(mtinst)
        funct3 == (low \div 4096) % 8
        rd == (low \div 128) % 32
        rs2 == (High16(mtinst) \div 16) % 32
        other == [instruction |-> "Other", rd |-> 0, rs2 |-> 0]
    IN  IF low % 128 = 3
        THEN CASE funct3 = 0 -> [instruction |-> "Lb", rd |-> rd, rs2 |-> 0]
               [] funct3 = 1 -> [instruction |-> "Lh", rd |-> rd, rs2 |-> 0]
               [] funct3 = 2 -> [instruction |-> "Lw", rd |-> rd, rs2 |-> 0]
               [] funct3 = 3 -> [instruction |-> "Ld", rd |-> rd, rs2 |-> 0]
               [] funct3 = 4 -> [instruction |-> "Lbu", rd |-> rd, rs2 |-> 0]
               [] funct3 = 5 -> [instruction |-> "Lhu", rd |-> rd, rs2 |-> 0]
               [] funct3 = 6 -> [instruction |-> "Lwu", rd |-> rd, rs2 |-> 0]
               [] OTHER -> other
        ELSE IF low % 128 = 35
        THEN CASE funct3 = 0 -> [instruction |-> "Sb", rd |-> 0, rs2 |-> rs2]
               [] funct3 = 1 -> [instruction |-> "Sh", rd |-> 0, rs2 |-> rs2]
               [] funct3 = 2 -> [instruction |-> "Sw", rd |-> 0, rs2 |-> rs2]
               [] funct3 = 3 -> [instruction |-> "Sd", rd |-> 0, rs2 |-> rs2]
               [] OTHER -> other
        ELSE other

\* The constants of read_result_gpr; INSN_MASK_C stands for the eight
\* masks INSN_MASK_C_LD .. INSN_MASK_C_SWSP, which are all 0xe003.
SH_RS2C == 2
INSN_MASK_C == 57347
INSN_MATCH_C_LW == 16384
INSN_MATCH_C_LD == 24576
INSN_MATCH_C_SW == 49152
INSN_MATCH_C_SD == 57344
INSN_MATCH_C_LWSP == 16386
INSN_MATCH_C_LDSP == 24578
INSN_MATCH_C_SWSP == 49154
INSN_MATCH_C_SDSP == 57346
log_regbytes == 3
reg_mask == Pow2(5 + log_regbytes) - Pow2(log_regbytes)

\* The closure shift_right of read_result_gpr
shift_right(x, y) == IF y < 0 THEN x * Pow2(0 - y) ELSE x \div Pow2(y)

\* Mutant of rv_x: the field is taken without the shift.
rv_x_unshifted(x, s, n) == BitAnd(x, Pow2(n) - 1)

\* The closure rv_x of read_result_gpr
rv_x(x, s, n) == BitAnd(x \div Pow2(s), Pow2(n) - 1)

InvalidRiscvInstruction(mtinst) ==
    [ok |-> FALSE, error |-> "InvalidRiscvInstruction", word |-> mtinst, gpr |-> 0]
DecodedGpr(index) == [ok |-> TRUE, error |-> "", word |-> Zero64, gpr |-> index]

\* The compressed arm of read_result_gpr (lines 204-268).  The masks and
\* reg_mask reach no higher than bit 15, so the lowest limb decides.
compressed_register_index(mtinst) ==
    LET low == Low16(mtinst)
    IN  IF BitAnd(low, INSN_MASK_C) = INSN_MATCH_C_LW
        THEN DecodedGpr(8 + rv_x(low, SH_RS2C, 3))
        ELSE IF BitAnd(low, INSN_MASK_C) = INSN_MATCH_C_LD
        THEN DecodedGpr(8 + rv_x(low, SH_RS2C, 3))
        ELSE IF BitAnd(low, INSN_MASK_C) = INSN_MATCH_C_SW
        THEN LET tmp_inst == 8 + rv_x(low, SH_RS2C, 3)
                 index == BitAnd(shift_right(tmp_inst, 0 - log_regbytes), reg_mask)
             IN  DecodedGpr(index \div 8)
        ELSE IF BitAnd(low, INSN_MASK_C) = INSN_MATCH_C_SD
        THEN LET tmp_inst == 8 + rv_x(low, SH_RS2C, 3)
                 index == BitAnd(shift_right(tmp_inst, 0 - log_regbytes), reg_mask)
             IN  DecodedGpr(index \div 8)
        ELSE IF BitAnd(low, INSN_MASK_C) = INSN_MATCH_C_LWSP
        THEN DecodedGpr(0)
        ELSE IF BitAnd(low, INSN_MASK_C) = INSN_MATCH_C_SWSP
        THEN LET index == BitAnd(shift_right(low, SH_RS2C - log_regbytes), reg_mask)
             IN  DecodedGpr(index \div 8)
        ELSE IF BitAnd(low, INSN_MASK_C) = INSN_MATCH_C_LDSP
        THEN DecodedGpr(0)
        ELSE IF BitAnd(low, INSN_MASK_C) = INSN_MATCH_C_SDSP
        THEN LET index == BitAnd(shift_right(low, SH_RS2C - log_regbytes), reg_mask)
             IN  DecodedGpr(index \div 8)
        ELSE InvalidRiscvInstruction(mtinst)

\* GpRegister::from_index: the registers x0..x31
GpRegister_from_index(index) == index \in GpRegisters

\* read_result_gpr
read_result_gpr(mtinst) ==
    LET decoded == riscv_decode(mtinst)
        register_index ==
            IF decoded.instruction \in {"Sb", "Sh", "Sw", "Sd"}
            THEN DecodedGpr(decoded.rs2)
            ELSE IF decoded.instruction \in {"Lb", "Lbu", "Lhu", "Lwu", "Lh", "Lw", "Ld"}
            THEN DecodedGpr(decoded.rd)
            ELSE compressed_register_index(mtinst)
    IN  IF ~register_index.ok
        THEN register_index
        ELSE IF GpRegister_from_index(register_index.gpr)
        THEN register_index
        ELSE InvalidRiscvInstruction(mtinst)

\* MmioLoadRequest::new and MmioStoreRequest::new
MmioLoadRequest(mcause, mtval, mtval2, instruction) ==
    [kind |-> "MmioLoadRequest", mcause |-> mcause, mtval |-> mtval, mtval2 |-> mtval2,
     instruction |-> instruction]
MmioStoreRequest(mcause, mtval, mtval2, instruction, register, gpr_value) ==
    [kind |-> "MmioStoreRequest", mcause |-> mcause, mtval |-> mtval, mtval2 |-> mtval2,
     instruction |-> instruction, gpr |-> register, gpr_value |-> gpr_value]

\* instruction & mask for mask = 2^bits - 1, bits a multiple of 16
Trim(word, bits) == [i \in 1..4 |-> IF (4 - i) * 16 < bits THEN word[i] ELSE 0]

\* The width of usize
UsizeBits == 64

\* ConfidentialHart::read_instruction, given the usize the volatile read at
\* mepc returns.  1 << 8 * instruction_length overflows the usize for an
\* instruction of eight bytes or more: a build with overflow checks panics
\* there, a build without them shifts by the amount modulo 64.
read_instruction(fetched) ==
    LET length == instruction_length(Low16(fetched))
        shift == 8 * length
    IN  IF shift < UsizeBits
        THEN {[panic |-> FALSE, instruction |-> Trim(fetched, shift),
               instruction_length |-> length]}
        ELSE {[panic |-> TRUE, instruction |-> Zero64, instruction_length |-> length],
              [panic |-> FALSE, instruction |-> Trim(fetched, shift % UsizeBits),
               instruction_length |-> length]}

Panicked(input) ==
    [ok |-> FALSE, error |-> "panic", word |-> Zero64, request |-> None, mmio |-> None]
RequestFailed(decoded) ==
    [ok |-> FALSE, error |-> decoded.error, word |-> decoded.word, request |-> None,
     mmio |-> None]
RequestPair(request, mmio) ==
    [ok |-> TRUE, error |-> "", word |-> Zero64, request |-> request, mmio |-> mmio]

\* ConfidentialHart::guest_load_page_fault_request: the outcomes for the
\* word at mepc and the code mcause holds.
guest_load_page_fault_request(self, mcause, fetched) ==
    {IF read.panic
     THEN Panicked(fetched)
     ELSE LET register == read_result_gpr(read.instruction)
              state == self.confidential_hart_state
          IN  IF ~register.ok
              THEN RequestFailed(register)
              ELSE RequestPair(GuestLoadPageFault(read.instruction_length, register.gpr),
                               MmioLoadRequest(mcause, state.mtval, state.mtval2,
                                               read.instruction))
        : read \in read_instruction(fetched)}

\* ConfidentialHart::guest_store_page_fault_request
guest_store_page_fault_request(self, mcause, fetched) ==
    {IF read.panic
     THEN Panicked(fetched)
     ELSE LET register == read_result_gpr(read.instruction)
              state == self.confidential_hart_state
          IN  IF ~register.ok
              THEN RequestFailed(register)
              ELSE RequestPair(GuestStorePageFault(read.instruction_length),
                               MmioStoreRequest(mcause, state.mtval, state.mtval2,
                                                read.instruction, register.gpr,
                                                gpr(state, register.gpr)))
        : read \in read_instruction(fetched)}

(***************************************************************************)
(* Inputs of trap decoding, the words the guest's memory can hold at mepc: *)
(* every value of the bits [15:13], [6:2] and [1:0] of the first halfword, *)
(* with patterns in the bits between, and second halfwords that give rs2   *)
(* and the immediate different values.                                     *)
(***************************************************************************)
FieldFills == {21, 42}
LowHalfwords ==
    {top * Pow2(13) + fill * Pow2(7) + field * 4 + quadrant :
        top \in 0..7, fill \in FieldFills, field \in 0..31, quadrant \in 0..3}
HighHalfwords == {0, 15 * 16, AllOnesMask}
\* What follows the instruction in the guest's memory.
FollowingHalfwords == {0, AllOnesMask}
FetchedWords ==
    {<<next, next, high, low>> :
        next \in FollowingHalfwords, high \in HighHalfwords, low \in LowHalfwords}
\* mcause of a guest load and of a guest store page fault
GuestLoadPageFaultCode == 21
GuestStorePageFaultCode == 23

ReadResultGpr ==
    /\ HartPresent
    /\ \E r \in {read_result_gpr(guest)} :
          ret' = Return("read_result_gpr", r.ok, r.error, hart, guest, r)
    /\ UNCHANGED <<ptVars, hart, flow, guest>>

GuestLoadPageFaultRequest ==
    /\ HartPresent
    /\ \E r \in guest_load_page_fault_request(hart, GuestLoadPageFaultCode, guest) :
          ret' = Return("guest_load_page_fault_request", r.ok, r.error, hart, guest, r)
    /\ UNCHANGED <<ptVars, hart, flow, guest>>

GuestStorePageFaultRequest ==
    /\ HartPresent
    /\ \E r \in guest_store_page_fault_request(hart, GuestStorePageFaultCode, guest) :
          ret' = Return("guest_store_page_fault_request", r.ok, r.error, hart, guest, r)
    /\ UNCHANGED <<ptVars, hart, flow, guest>>

\* A hart of a confidential VM that trapped at the instruction of the
\* scenario.
InitDecode ==
    /\ nonconf = HvMemory(CHOOSE c \in HvChoices : TRUE)
    /\ pool = ConfFrames
    /\ reserved = {}
    /\ root = NoRootPageTable
    /\ last = NoOperation
    /\ \E from \in HartSnapshots :
          /\ from.mepc = ScenarioMepc
          /\ gpr(from, 5) = Ones64
          /\ hart = from_vm_hart(0, from)
    /\ ret = NoReturn
    /\ flow = NoFlow
    /\ guest \in FetchedWords
    /\ cvms = <<>>
    /\ writes = 0

NextDecode ==
    \/ ReadResultGpr
    \/ GuestLoadPageFaultRequest
    \/ GuestStorePageFaultRequest

SpecDecode == InitDecode /\ [][NextDecode]_vars

\* The compressed load and store encodings, by the quadrant (bits [1:0])
\* and funct3 (bits [15:13]) of a 16-bit word.
IsHalfword(word) == word[1] = 0 /\ word[2] = 0 /\ word[3] = 0
Quadrant(word) == Low16(word) % 4
CFunct3(word) == Low16(word) \div Pow2(13)
IsCompressedRegisterForm(word) ==
    IsHalfword(word) /\ Quadrant(word) = 0 /\ CFunct3(word) \in {2, 3, 6, 7}
IsCompressedSpLoad(word) ==
    IsHalfword(word) /\ Quadrant(word) = 2 /\ CFunct3(word) \in {2, 3}
IsCompressedSpStore(word) ==
    IsHalfword(word) /\ Quadrant(word) = 2 /\ CFunct3(word) \in {6, 7}
\* The loads and stores of the base ISA, by opcode and funct3 of a 32-bit word.
IsWord32(word) == word[1] = 0 /\ word[2] = 0
IsStandardLoad(word) ==
    IsWord32(word) /\ Low16(word) % 128 = 3 /\ (Low16(word) \div Pow2(12)) % 8 \in 0..6
IsStandardStore(word) ==
    IsWord32(word) /\ Low16(word) % 128 = 35 /\ (Low16(word) \div Pow2(12)) % 8 \in 0..3
BitsOf(word, low, count) == (Low16(word) \div Pow2(low)) % Pow2(count)

\* C22: read_result_gpr returns register 8 + bits[4:2] for C.LW, C.LD, C.SW
\* and C.SD, x0 for C.LWSP and C.LDSP, the register numbered by bits [6:2]
\* for C.SWSP and C.SDSP, rd (bits [11:7]) for the standard loads and rs2
\* (bits [24:20]) for the standard stores.
C22_ReadResultGprRegister ==
    ret.op = "read_result_gpr" =>
        LET word == ret.input
            register == IF ret.ok THEN ret.value.gpr ELSE 0 - 1
        IN  /\ IsCompressedRegisterForm(word) => register = 8 + BitsOf(word, 2, 3)
            /\ IsCompressedSpLoad(word) => register = 0
            /\ IsCompressedSpStore(word) => register = BitsOf(word, 2, 5)
            /\ IsStandardLoad(word) => register = BitsOf(word, 7, 5)
            /\ IsStandardStore(word) => register = (High16(word) \div 16) % 32

\* C22 witness: a c.sw whose bits [4:2] are 7 (register x15) and whose
\* other operand bits are set, decoded to x15.
C22_Witness ==
    /\ ret.op = "read_result_gpr"
    /\ IsCompressedRegisterForm(ret.input)
    /\ CFunct3(ret.input) = 6
    /\ BitsOf(ret.input, 2, 5) = 31
    /\ BitsOf(ret.input, 7, 6) = 42
    /\ ret.ok
    /\ ret.value.gpr = 15

\* The instruction a word starts with is one of the loads and stores the
\* decoder covers: its length is given by its lowest bits, and the
\* instruction is that many bytes of the word.
StartsWithCoveredInstruction(word) ==
    \/ IsCompressedRegisterForm(Trim(word, 16))
    \/ IsCompressedSpLoad(Trim(word, 16))
    \/ IsCompressedSpStore(Trim(word, 16))
    \/ IsStandardLoad(Trim(word, 32))
    \/ IsStandardStore(Trim(word, 32))

\* The word at mepc masked to the length of the instruction it starts with;
\* a usize holds at most the first eight bytes.
MaskedToLength(word) ==
    LET bits == 8 * instruction_length(Low16(word))
    IN  Trim(word, IF bits < UsizeBits THEN bits ELSE UsizeBits)

\* C23: for every instruction word that is none of the covered loads and
\* stores, read_result_gpr fails with InvalidRiscvInstruction carrying the
\* word, and guest_load_page_fault_request and
\* guest_store_page_fault_request return that error, for the word at mepc
\* masked to its length, and produce no request.
C23_UnknownInstructionRefused ==
    /\ (ret.op = "read_result_gpr" /\ ~StartsWithCoveredInstruction(ret.input)) =>
          /\ ~ret.ok
          /\ ret.error = "InvalidRiscvInstruction"
          /\ ret.value.word = ret.input
    /\ (/\ ret.op \in {"guest_load_page_fault_request", "guest_store_page_fault_request"}
        /\ ~StartsWithCoveredInstruction(ret.input)) =>
          /\ ~ret.ok
          /\ ret.error = "InvalidRiscvInstruction"
          /\ ret.value.word = MaskedToLength(ret.input)
          /\ ret.value.request = None
          /\ ret.value.mmio = None

(***************************************************************************)
(* The index arithmetic of the walk.                                       *)
(***************************************************************************)
\* The guest addresses of the pages of the guest physical address space:
\* the page offset, five index fields, the two bits by which the root is
\* wider, and one bit above them.
GuestPageAddresses == {k * PageBytes : k \in 0..(Pow2(Level5 * VpnBits + 2 + 1) - 1)}

\* The indices of a table that some guest address selects.
SelectedIndices(level) == {vpn(va, level) : va \in GuestPageAddresses}

\* The tables of a tree.
RECURSIVE TablesOf(_)
TablesOf(table) ==
    {table} \cup UNION {IF table.entries[i].kind = "Pointer"
                        THEN TablesOf(table.entries[i].page_table)
                        ELSE {} : i \in DOMAIN table.entries}

\* vpn(va, level) is an index of every table of that level in the tree.
VpnWithinTable ==
    root.kind = "RootPageTable" =>
        \A table \in TablesOf(root.page_table) :
            /\ SelectedIndices(table.level) \subseteq 0..(entries(table.level) - 1)
            /\ SelectedIndices(table.level) \subseteq DOMAIN table.entries

\* C25: for every guest address vpn(va, level) is an index of the table at
\* that level, and every index of the table is the vpn of some guest
\* address, at the root (2048 entries in the source) as at the inner levels
\* (512), for every table of the tree the walk of map_shared_page indexes.
C25_VpnCoversEveryIndex ==
    /\ VpnWithinTable
    /\ root.kind = "RootPageTable" =>
          \A table \in TablesOf(root.page_table) :
              /\ DOMAIN table.entries = 0..(entries(table.level) - 1)
              /\ \A index \in DOMAIN table.entries : index \in SelectedIndices(table.level)

\* The inner tables have every index selected by some guest address.
InnerIndicesSelected ==
    root.kind = "RootPageTable" =>
        \A table \in TablesOf(root.page_table) :
            table.level # Level5 => SelectedIndices(table.level) = DOMAIN table.entries

(***************************************************************************)
(* The page-table operations step by step.  Several CVMs share the memory  *)
(* tracker, each operated by its own physical hart, and the hypervisor     *)
(* writes its memory while they run.  A step holds at most one call of the *)
(* tracker or one read of hypervisor memory; the activations of the        *)
(* recursive copy are kept on a stack.                                     *)
(***************************************************************************)
\* One activation of PageTable::copy_from_non_confidential_memory: the
\* level, the address the table is copied from, the backing region with the
\* snapshot, and the entries collected so far.
CopyFrame(level, source, memory, ents) ==
    [level |-> level, source |-> source, page_table_memory |-> memory, entries |-> ents]

CopyError(error, free) ==
    [kind |-> "error", error |-> error, pool |-> free, frame |-> None]

\* Mutant of copy_step: the raw word of the entry is read again from the
\* hypervisor's table instead of the confidential snapshot.
copy_step_rereads_source(mem, free, top) ==
    LET index == VecLen(top.entries)
        entry_raw == ReadWord(mem, top.source + index * entry_size)
        reread == [top EXCEPT !.page_table_memory.raw[index] = entry_raw]
    IN  IF is_valid(entry_raw) /\ ~is_leaf(entry_raw)
        THEN LET lower_level == lower_or_corrupted(reread.level)
                 address == NonConfidentialMemoryAddress_new(PageTableAddress_decode(entry_raw))
             IN  IF ~lower_level.ok THEN CopyError(lower_level.error, free)
                 ELSE IF ~address.ok THEN CopyError(address.error, free)
                 ELSE Bind(PageTableMemory_copy_from_non_confidential_memory(
                               mem, free, address.address, lower_level.level),
                           LAMBDA m :
                      IF ~m.ok THEN CopyError(m.error, free)
                      ELSE [kind |-> "descend", error |-> "", pool |-> m.pool,
                            frame |-> CopyFrame(lower_level.level, address.address,
                                                m.memory, EmptyVec)])
        ELSE Bind(copy_entry(mem, free, reread.page_table_memory, index, reread.level),
                  LAMBDA r :
             IF ~r.ok THEN CopyError(r.error, r.pool)
             ELSE [kind |-> "entry", error |-> "", pool |-> r.pool,
                   frame |-> [reread EXCEPT
                                !.page_table_memory =
                                    PageTableMemory_set_entry(@, index, r.entry),
                                !.entries = VecPush(@, r.entry)]])

\* One turn of the closure of page_table.rs:57-80 for the next index of the
\* activation on top of the stack: the raw word is read from the snapshot
\* (line 58); a NotValid or Leaf entry is built and written (lines 59-70,
\* 78); a pointer entry starts the activation for the lower level, whose
\* first act is the snapshot of the child table (lines 72-74, 54).
copy_step(mem, free, top) ==
    LET index == VecLen(top.entries)
        entry_raw == top.page_table_memory.raw[index]
    IN  IF is_valid(entry_raw) /\ ~is_leaf(entry_raw)
        THEN LET lower_level == lower_or_corrupted(top.level)
                 address == NonConfidentialMemoryAddress_new(PageTableAddress_decode(entry_raw))
             IN  IF ~lower_level.ok THEN CopyError(lower_level.error, free)
                 ELSE IF ~address.ok THEN CopyError(address.error, free)
                 ELSE Bind(PageTableMemory_copy_from_non_confidential_memory(
                               mem, free, address.address, lower_level.level),
                           LAMBDA m :
                      IF ~m.ok THEN CopyError(m.error, free)
                      ELSE [kind |-> "descend", error |-> "", pool |-> m.pool,
                            frame |-> CopyFrame(lower_level.level, address.address,
                                                m.memory, EmptyVec)])
        ELSE Bind(copy_entry(mem, free, top.page_table_memory, index, top.level),
                  LAMBDA r :
             IF ~r.ok THEN CopyError(r.error, r.pool)
             ELSE [kind |-> "entry", error |-> "", pool |-> r.pool,
                   frame |-> [top EXCEPT
                                !.page_table_memory =
                                    PageTableMemory_set_entry(@, index, r.entry),
                                !.entries = VecPush(@, r.entry)]])

\* The end of an activation (page_table.rs:81-82): the table is returned;
\* the activation below wraps it in a Pointer entry, writes the raw word and
\* collects the entry (lines 74-79), and the outermost caller wraps it in
\* the RootPageTable (lines 24-25).
finish_table(stack) ==
    LET top == stack[Len(stack)]
        table == PageTable(top.level, top.page_table_memory, top.entries)
    IN  IF Len(stack) = 1
        THEN [stack |-> <<>>, root |-> RootPageTable("Sv57x4", table)]
        ELSE LET parent == stack[Len(stack) - 1]
                 index == VecLen(parent.entries)
                 entry == Pointer(table, PageTableConfiguration_decode(
                                             parent.page_table_memory.raw[index]))
             IN  [stack |-> SubSeq(stack, 1, Len(stack) - 2)
                            \o <<[parent EXCEPT
                                    !.page_table_memory =
                                        PageTableMemory_set_entry(@, index, entry),
                                    !.entries = VecPush(@, entry)]>>,
                  root |-> NoRootPageTable]

RECURSIVE ReleaseOrder(_)
\* Mutant of ReleaseOrder: the page of a Leaf entry is released twice.
ReleaseOrder_releases_leaf_twice(table) ==
    LET order[k \in 0..VecLen(table.entries)] ==
            IF k = 0 THEN <<>>
            ELSE order[k - 1]
                 \o (CASE table.entries[k - 1].kind = "Leaf" ->
                            <<FramesOf(table.entries[k - 1].page.address,
                                       table.entries[k - 1].page.size),
                              FramesOf(table.entries[k - 1].page.address,
                                       table.entries[k - 1].page.size)>>
                       [] table.entries[k - 1].kind = "Pointer" ->
                            ReleaseOrder(table.entries[k - 1].page_table)
                       [] OTHER -> <<>>)
    IN  order[VecLen(table.entries)] \o <<MemoryFrames(table.page_table_memory)>>

\* Drop for PageTable, one release at a time: the entries are drained in
\* order, a Leaf releases its page, a Pointer drops its table, and the
\* backing region goes last, with the fields of the table.
ReleaseOrder(table) ==
    LET order[k \in 0..VecLen(table.entries)] ==
            IF k = 0 THEN <<>>
            ELSE order[k - 1]
                 \o (CASE table.entries[k - 1].kind = "Leaf" ->
                            <<FramesOf(table.entries[k - 1].page.address,
                                       table.entries[k - 1].page.size)>>
                       [] table.entries[k - 1].kind = "Pointer" ->
                            ReleaseOrder(table.entries[k - 1].page_table)
                       [] OTHER -> <<>>)
    IN  order[VecLen(table.entries)] \o <<MemoryFrames(table.page_table_memory)>>

\* The error return of the copy (the `?` of page_table.rs:54-81): every
\* activation drops what it collected and its backing region, innermost
\* first.
UnwindOrder(stack) ==
    LET order[k \in 0..Len(stack)] ==
            IF k = 0 THEN <<>> ELSE ReleaseOrder(stack[k]) \o order[k - 1]
    IN  order[Len(stack)]

\* A CVM before its promotion: no tree, no operation under way.  The hart
\* of a CVM runs one operation: the copy on a new CVM, map_shared_page or
\* the drop on a CVM that has its tree ("idle"); then it is "done".
NoCvm ==
    [status |-> "new", root |-> NoRootPageTable, stack |-> <<>>, releases |-> <<>>,
     error |-> "", snapshots |-> {}, raced |-> {}]

\* What was read when a table was snapshotted: the backing region it went
\* to, the address it came from and its words.
Snapshot(frame) ==
    [table |-> frame.page_table_memory.address, source |-> frame.source,
     words |-> frame.page_table_memory.raw]

\* RootPageTable::copy_from_non_confidential_memory up to the snapshot of
\* the root table (page_table.rs:24, 54).
CvmBeginCopy(c) ==
    /\ cvms[c].status = "new"
    /\ \E m \in {PageTableMemory_copy_from_non_confidential_memory(
                     nonconf, pool, HvRootAddress, levels)} :
          IF m.ok
          THEN /\ pool' = m.pool
               /\ \E frame \in {CopyFrame(levels, HvRootAddress, m.memory, EmptyVec)} :
                     cvms' = [cvms EXCEPT ![c] =
                                 [NoCvm EXCEPT !.status = "copying", !.stack = <<frame>>,
                                               !.snapshots = {Snapshot(frame)}]]
          ELSE /\ pool' = pool
               /\ cvms' = [cvms EXCEPT ![c] = [NoCvm EXCEPT !.status = "done",
                                                              !.error = m.error]]
    /\ UNCHANGED <<nonconf, reserved, root, last, hartVars, writes>>

\* The copy of the next entry of the table on top of the stack.
CvmCopyStep(c) ==
    /\ cvms[c].status = "copying"
    /\ LET stack == cvms[c].stack
           top == stack[Len(stack)]
       IN  /\ VecLen(top.entries) < number_of_entries(top.page_table_memory)
           /\ \E r \in {copy_step(nonconf, pool, top)} :
                 /\ pool' = r.pool
                 /\ cvms' = [cvms EXCEPT ![c] =
                       CASE r.kind = "entry" ->
                              [@ EXCEPT !.stack[Len(stack)] = r.frame]
                         [] r.kind = "descend" ->
                              [@ EXCEPT !.stack = Append(stack, r.frame),
                                        !.snapshots = @ \cup {Snapshot(r.frame)}]
                         [] r.kind = "error" ->
                              [@ EXCEPT !.status = "releasing", !.stack = <<>>,
                                        !.releases = UnwindOrder(stack),
                                        !.error = r.error, !.snapshots = {},
                                        !.raced = {}]]
    /\ UNCHANGED <<nonconf, reserved, root, last, hartVars, writes>>

\* The table on top of the stack has all its entries: it is returned.
CvmFinishTable(c) ==
    /\ cvms[c].status = "copying"
    /\ LET stack == cvms[c].stack
           top == stack[Len(stack)]
       IN  /\ VecLen(top.entries) = number_of_entries(top.page_table_memory)
           /\ \E r \in {finish_table(stack)} :
                 cvms' = [cvms EXCEPT ![c] =
                             [@ EXCEPT !.stack = r.stack, !.root = r.root,
                                       !.status = IF r.stack = <<>> THEN "done"
                                                  ELSE "copying"]]
    /\ UNCHANGED <<nonconf, pool, reserved, root, last, hartVars, writes>>

\* One MemoryTracker::release_page of a drop that is under way.
CvmRelease(c) ==
    /\ cvms[c].status = "releasing"
    /\ pool' = pool \cup Head(cvms[c].releases)
    /\ cvms' = [cvms EXCEPT ![c] =
                   [@ EXCEPT !.releases = Tail(@),
                             !.status = IF Len(cvms[c].releases) > 1 THEN "releasing"
                                        ELSE "done"]]
    /\ UNCHANGED <<nonconf, reserved, root, last, hartVars, writes>>

\* Teardown of a CVM: its RootPageTable is dropped.
CvmBeginDrop(c) ==
    /\ cvms[c].status = "idle"
    /\ cvms[c].root.kind = "RootPageTable"
    /\ cvms' = [cvms EXCEPT ![c] =
                   [NoCvm EXCEPT !.status = "releasing",
                                 !.releases = ReleaseOrder(cvms[c].root.page_table)]]
    /\ UNCHANGED <<nonconf, pool, reserved, root, last, hartVars, writes>>

(***************************************************************************)
(* Two CVMs, each operated by its own physical hart, on one tracker.       *)
(***************************************************************************)
Cvms == {1, 2}

RECURSIVE copy_run(_, _, _)
\* The copy from where it stands up to and including its next call of the
\* tracker: turns of the closure for NotValid entries and returns of
\* finished tables touch only what the copying hart owns, so they are taken
\* together with the call that follows them.
copy_run(mem, free, stack) ==
    LET top == stack[Len(stack)]
    IN  IF VecLen(top.entries) = number_of_entries(top.page_table_memory)
        THEN Bind(finish_table(stack), LAMBDA f :
             IF f.stack = <<>>
             THEN [kind |-> "done", stack |-> <<>>, pool |-> free, root |-> f.root,
                   error |-> ""]
             ELSE copy_run(mem, free, f.stack))
        ELSE Bind(copy_step(mem, free, top), LAMBDA r :
             CASE r.kind = "error" ->
                    [kind |-> "error", stack |-> stack, pool |-> r.pool,
                     root |-> NoRootPageTable, error |-> r.error]
               [] r.kind = "descend" ->
                    [kind |-> "copying", stack |-> Append(stack, r.frame), pool |-> r.pool,
                     root |-> NoRootPageTable, error |-> ""]
               [] r.kind = "entry" ->
                    IF r.pool = free
                    THEN copy_run(mem, free, [stack EXCEPT ![Len(stack)] = r.frame])
                    ELSE [kind |-> "copying",
                          stack |-> [stack EXCEPT ![Len(stack)] = r.frame],
                          pool |-> r.pool, root |-> NoRootPageTable, error |-> ""])

\* The copy of a CVM up to its next call of the tracker.
CvmCopyRun(c) ==
    /\ cvms[c].status = "copying"
    /\ \E r \in {copy_run(nonconf, pool, cvms[c].stack)} :
          /\ pool' = r.pool
          /\ cvms' = [cvms EXCEPT ![c] =
                CASE r.kind = "copying" -> [@ EXCEPT !.stack = r.stack]
                  [] r.kind = "done" ->
                       [@ EXCEPT !.stack = <<>>, !.root = r.root, !.status = "done"]
                  [] r.kind = "error" ->
                       [@ EXCEPT !.status = "releasing", !.stack = <<>>,
                                 !.releases = UnwindOrder(r.stack), !.error = r.error,
                                 !.snapshots = {}, !.raced = {}]]
    /\ UNCHANGED <<nonconf, reserved, root, last, hartVars, writes>>

\* The pages the guests ask to share in the concurrent runs: over the Leaf,
\* and under an entry of the level-2 table that is not valid.
ConcurrentSharedPages ==
    {SharedPage(AddressOf(HvDataFrame), 0), SharedPage(AddressOf(HvDataFrame), page_size(2))}

\* RootPageTable::map_shared_page.  A call that replaces an entry makes at
\* most one call of the tracker; a call that creates a table acquires its
\* backing region and, failing, releases it in a later step.
CvmMapSharedPage(c) ==
    /\ cvms[c].status = "idle"
    /\ cvms[c].root.kind = "RootPageTable"
    /\ \E shared_page \in ConcurrentSharedPages :
          \E r \in {RootPageTable_map_shared_page(cvms[c].root, pool, shared_page)} :
              IF r.ok \/ r.empties = <<>>
              THEN /\ pool' = r.pool
                   /\ cvms' = [cvms EXCEPT ![c] = [@ EXCEPT !.root = r.root,
                                                              !.error = r.error,
                                                              !.status = "done"]]
              ELSE /\ pool' = pool \ UNION {MemoryFrames(r.empties[k].page_table_memory) :
                                               k \in DOMAIN r.empties}
                   /\ cvms' = [cvms EXCEPT ![c] =
                                  [@ EXCEPT !.status = "releasing",
                                            !.error = r.error,
                                            !.releases =
                                                [k \in DOMAIN r.empties |->
                                                    MemoryFrames(r.empties[k].page_table_memory)]]]
    /\ UNCHANGED <<nonconf, reserved, root, last, hartVars, writes>>

\* The hypervisor's tables of the concurrent runs: one 4 KiB leaf under the
\* first entries of all levels.
ConcurrentChoice ==
    [root1 |-> 0, l3a |-> HvPointerWord(HvTableFrame(2)),
     l2a |-> HvPointerWord(HvTableFrame(1)), l2b |-> 0,
     l1a |-> HvLeafWord(HvDataFrame, FlagsRwx), l1b |-> 0]

\* A CVM as an earlier promotion left it, or as an earlier page-in over its
\* Leaf left it: the tree, and the pool after it.
Promoted(free, mapped) ==
    LET copied == RootPageTable_copy_from_non_confidential_memory(
                      HvMemory(ConcurrentChoice), free, HvRootAddress)
        shared == RootPageTable_map_shared_page(
                      copied.root, copied.pool, SharedPage(AddressOf(HvDataFrame + 1), 0))
    IN  IF mapped
        THEN [cvm |-> [NoCvm EXCEPT !.status = "idle", !.root = shared.root],
              pool |-> shared.pool]
        ELSE [cvm |-> [NoCvm EXCEPT !.status = "idle", !.root = copied.root],
              pool |-> copied.pool]

Prepared(free, plan) ==
    CASE plan = "new" -> [cvm |-> NoCvm, pool |-> free]
      [] plan = "copied" -> Promoted(free, FALSE)
      [] plan = "mapped" -> Promoted(free, TRUE)

\* Each CVM is new, or has its tree from an earlier promotion.
InitConcurrent ==
    /\ nonconf = HvMemory(ConcurrentChoice)
    /\ \E first, second \in {"new", "copied", "mapped"} :
          \E one \in {Prepared(ConfFrames, first)} :
              \E two \in {Prepared(one.pool, second)} :
                  /\ cvms = <<one.cvm, two.cvm>>
                  /\ pool = two.pool
    /\ reserved = {}
    /\ root = NoRootPageTable
    /\ last = NoOperation
    /\ hart = NoHart
    /\ ret = NoReturn
    /\ flow = NoFlow
    /\ guest = Zero64
    /\ writes = 0

NextConcurrent ==
    \/ \E c \in Cvms : CvmBeginCopy(c)
    \/ \E c \in Cvms : CvmCopyRun(c)
    \/ \E c \in Cvms : CvmRelease(c)
    \/ \E c \in Cvms : CvmBeginDrop(c)
    \/ \E c \in Cvms : CvmMapSharedPage(c)

SpecConcurrent == InitConcurrent /\ [][NextConcurrent]_vars

\* The number of holders a confidential frame has in a CVM: in its tree, in
\* the tables of a copy under way, and among the pages and regions a drop
\* under way has yet to release.
CvmHolders(c, frame) ==
    LET cvm == cvms[c]
        inStack[k \in 0..Len(cvm.stack)] ==
            IF k = 0 THEN 0 ELSE inStack[k - 1] + Owners(cvm.stack[k], frame)
        inReleases[k \in 0..Len(cvm.releases)] ==
            IF k = 0 THEN 0
            ELSE inReleases[k - 1] + (IF frame \in cvm.releases[k] THEN 1 ELSE 0)
    IN  (IF cvm.root.kind = "RootPageTable" THEN Owners(cvm.root.page_table, frame) ELSE 0)
        + inStack[Len(cvm.stack)] + inReleases[Len(cvm.releases)]

Holders(frame) ==
    LET inCvms[c \in 0..Cardinality(DOMAIN cvms)] ==
            IF c = 0 THEN 0 ELSE inCvms[c - 1] + CvmHolders(c, frame)
    IN  (IF frame \in pool THEN 1 ELSE 0) + inCvms[Cardinality(DOMAIN cvms)]

\* C24: under every interleaving of the steps of deep copy, map_shared_page
\* and drop that different harts run on different CVMs, no confidential
\* frame has two holders at once: two trees, two entries, or an entry and
\* the free pool.
C24_NoFrameHasTwoHolders ==
    \A frame \in ConfFrames : Holders(frame) <= 1

\* C24 witness: both CVMs hold a tree and one of them is being torn down
\* while the other has mapped a shared page over its Leaf, whose page is
\* back in the pool.
C24_Witness ==
    /\ cvms[1].status = "releasing" /\ cvms[1].releases # <<>>
    /\ cvms[2].status = "done" /\ cvms[2].root.kind = "RootPageTable"
    /\ HasEntry(cvms[2].root.page_table, "Shared", 1)
    /\ \E frame \in pool : frame > SetMin(ConfFrames)

\* One CVM copies while the other does: both copies are under way.
BothCopying == cvms[1].status = "copying" /\ cvms[2].status = "copying"

(***************************************************************************)
(* One CVM is promoted while the hypervisor, on another hart, writes the   *)
(* tables the copy reads.                                                  *)
(***************************************************************************)
\* The varied places of the hypervisor's tables and the words it may put
\* at each.
HvPlaces ==
    {[address |-> HvRootAddress + 1 * entry_size, words |-> Root1Words],
     [address |-> AddressOf(HvTableFrame(3)), words |-> L3aWords],
     [address |-> AddressOf(HvTableFrame(2)), words |-> L2aWords],
     [address |-> AddressOf(HvTableFrame(2)) + 1 * entry_size, words |-> L2bWords],
     [address |-> AddressOf(HvTableFrame(1)), words |-> L1aWords],
     [address |-> AddressOf(HvTableFrame(1)) + 1 * entry_size, words |-> L1bWords]}

\* The entries of the tables under copy that a write to an address races:
\* the table was snapshotted from a range holding the address and the entry
\* has not been built yet.
RacedBy(cvm, address) ==
    {[table |-> frame.page_table_memory.address,
      index |-> (address - frame.source) \div entry_size] :
        frame \in {f \in {cvm.stack[k] : k \in DOMAIN cvm.stack} :
                      /\ f.source <= address
                      /\ address < f.source + size_in_bytes(f.level)
                      /\ (address - f.source) \div entry_size >= VecLen(f.entries)}}

\* The hypervisor stores a word to one of its tables.
HypervisorWrite ==
    /\ writes < MaxWrites
    /\ \E place \in HvPlaces : \E word \in place.words :
          /\ word # ReadWord(nonconf, place.address)
          /\ nonconf' = [nonconf EXCEPT
                            ![FrameOf(place.address)]
                             [(place.address % PageBytes) \div entry_size] = word]
          /\ cvms' = [c \in DOMAIN cvms |->
                         [cvms[c] EXCEPT !.raced = @ \cup RacedBy(cvms[c], place.address)]]
    /\ writes' = writes + 1
    /\ UNCHANGED <<pool, reserved, root, last, hartVars>>

\* The tables the hypervisor hands over at the promotion: a chain down to a
\* 4 KiB leaf, a level-1 table reached from two entries, and a level-3
\* table that points to itself.
SnapshotChoices ==
    {ConcurrentChoice,
     [ConcurrentChoice EXCEPT !.l2b = HvPointerWord(HvTableFrame(1)),
                              !.l1b = HvLeafWord(HvDataFrame + 1, FlagsRo)],
     [ConcurrentChoice EXCEPT !.l3a = HvPointerWord(HvTableFrame(3))]}

InitSnapshot ==
    /\ \E c \in SnapshotChoices : nonconf = HvMemory(c)
    /\ \E n \in {NumConfFrames, SmallPool} :
          /\ pool = {f \in ConfFrames : f < NumNonConfFrames + n}
          /\ reserved = ConfFrames \ pool
    /\ cvms = <<NoCvm>>
    /\ root = NoRootPageTable
    /\ last = NoOperation
    /\ hart = NoHart
    /\ ret = NoReturn
    /\ flow = NoFlow
    /\ guest = Zero64
    /\ writes = 0

NextSnapshot ==
    \/ CvmBeginCopy(1)
    \/ CvmCopyStep(1)
    \/ CvmFinishTable(1)
    \/ CvmRelease(1)
    \/ HypervisorWrite

SpecSnapshot == InitSnapshot /\ [][NextSnapshot]_vars

\* The tables a CVM has built so far: those of the activations of a copy
\* under way, with the tables under their entries, and those of its tree.
CopiedTables(cvm) ==
    UNION {TablesOf(PageTable(cvm.stack[k].level, cvm.stack[k].page_table_memory,
                              cvm.stack[k].entries)) : k \in DOMAIN cvm.stack}
    \cup (IF cvm.root.kind = "RootPageTable" THEN TablesOf(cvm.root.page_table) ELSE {})

\* The kind an entry decoded from a raw word has.
KindOfWord(word) ==
    IF ~is_valid(word) THEN "NotValid" ELSE IF is_leaf(word) THEN "Leaf" ELSE "Pointer"

\* An entry is what a raw word decodes to: its kind, configuration and
\* permission, and its target, the data of the page a Leaf word addresses
\* or the table snapshotted from the address a Pointer word holds.
EntryIsOfWord(cvm, entry, word) ==
    /\ entry.kind = KindOfWord(word)
    /\ entry.kind = "Leaf" =>
          /\ entry.configuration = PageTableConfiguration_decode(word)
          /\ entry.permission = PageTablePermission_decode(word)
          /\ entry.page.data
                = ReadWords(nonconf, PageTableAddress_decode(word), entry.page.size)
    /\ entry.kind = "Pointer" =>
          /\ entry.configuration = PageTableConfiguration_decode(word)
          /\ \E s \in cvm.snapshots :
                /\ s.table = entry.page_table.page_table_memory.address
                /\ s.source = PageTableAddress_decode(word)

\* C26: every entry of every table the deep copy has built is what the word
\* of the snapshot of its table decodes to, in kind, configuration,
\* permission and target, whatever the hypervisor wrote to the source table
\* after the snapshot was taken.
C26_EntriesComeFromSnapshot ==
    \A c \in DOMAIN cvms :
        \A table \in CopiedTables(cvms[c]) :
            \E s \in cvms[c].snapshots :
                /\ s.table = table.page_table_memory.address
                /\ \A index \in DOMAIN table.entries :
                      EntryIsOfWord(cvms[c], table.entries[index], s.words[index])

\* C26 witness: the copy is complete, and an entry the hypervisor overwrote
\* in the source table between the snapshot of its table and its turn has a
\* kind other than that of the word the hypervisor's table holds now.
C26_Witness ==
    /\ cvms[1].status = "done"
    /\ cvms[1].root.kind = "RootPageTable"
    /\ \E r \in cvms[1].raced :
          \E table \in TablesOf(cvms[1].root.page_table) :
              \E s \in cvms[1].snapshots :
                  /\ table.page_table_memory.address = r.table
                  /\ s.table = r.table
                  /\ table.entries[r.index].kind
                        # KindOfWord(ReadWord(nonconf, s.source + r.index * entry_size))
                  /\ table.entries[r.index].kind = KindOfWord(s.words[r.index])

\* The hart that runs the promotion executes the copy, and the releases of
\* its error return, without waiting for anything but the tracker: each of
\* its steps is taken once it can be.  The hypervisor's writes are under no
\* such obligation.
SpecSnapshotFair ==
    /\ SpecSnapshot
    /\ WF_vars(CvmCopyStep(1))
    /\ WF_vars(CvmFinishTable(1))
    /\ WF_vars(CvmRelease(1))

\* The Pointer entries of a tree that hold the table backed at an address.
ParentEntries(tree, address) ==
    UNION {{[parent |-> table, index |-> index] :
               index \in {i \in DOMAIN table.entries :
                            /\ table.entries[i].kind = "Pointer"
                            /\ table.entries[i].page_table.page_table_memory.address
                                  = address}} : table \in TablesOf(tree)}

\* The activations of the copy are at most five deep, each one level below
\* the one that started it.
RecursionDescends ==
    \A c \in DOMAIN cvms :
        /\ Len(cvms[c].stack) <= 5
        /\ \A k \in DOMAIN cvms[c].stack :
              /\ cvms[c].stack[k].level \in Level1..Level5
              /\ k > 1 => cvms[c].stack[k].level < cvms[c].stack[k - 1].level

\* The tree a copy returns: a Pointer entry holds a table of a lower level,
\* the root's table is held by no entry and every other table by one.
TreeOwnedOnce ==
    \A c \in DOMAIN cvms :
        cvms[c].root.kind = "RootPageTable" =>
            LET tree == cvms[c].root.page_table
            IN  \A table \in TablesOf(tree) :
                    /\ \A i \in DOMAIN table.entries :
                          table.entries[i].kind = "Pointer" =>
                              table.entries[i].page_table.level < table.level
                    /\ Cardinality(ParentEntries(tree, table.page_table_memory.address))
                          = (IF table = tree THEN 0 ELSE 1)

\* C27: the copy ends for every table of the hypervisor, also one whose
\* pointer entries lead back to itself; while it runs its activations are at
\* most 5 deep with strictly decreasing levels, and the tree it returns has
\* every table under exactly one parent entry.
C27_CopyTerminatesWithTree ==
    /\ [](RecursionDescends /\ TreeOwnedOnce)
    /\ (\E c \in DOMAIN cvms : cvms[c].status = "copying")
          ~> (\A c \in DOMAIN cvms : cvms[c].status = "done")

\* C27 witness: the copy is five activations deep in a table that points to
\* itself, which it is copying as the table of levels 3, 2 and 1.
C27_Witness ==
    /\ cvms[1].status = "copying"
    /\ Len(cvms[1].stack) = 5
    /\ cvms[1].stack[3].source = cvms[1].stack[4].source
    /\ cvms[1].stack[4].source = cvms[1].stack[5].source
    /\ ReadWord(nonconf, cvms[1].stack[5].source)
          = HvPointerWord(FrameOf(cvms[1].stack[5].source))

\* The copy of a table that pointed to itself has ended with
\* PageTableCorrupted and every frame is back in the pool.
SelfPointingCopyRefused ==
    /\ cvms[1].status = "done"
    /\ cvms[1].error = "PageTableCorrupted"
    /\ ReadWord(nonconf, AddressOf(HvTableFrame(3))) = HvPointerWord(HvTableFrame(3))
    /\ pool \cup reserved = ConfFrames

\* The copy of a level-1 table that two entries point to has ended with a
\* tree that holds it twice.
SharedTableCopiedTwice ==
    /\ cvms[1].status = "done"
    /\ cvms[1].root.kind = "RootPageTable"
    /\ Cardinality({t \in TablesOf(cvms[1].root.page_table) : t.level = Level1}) = 2

====
